---- MODULE Spec2Model ----
(***************************************************************************)
(* Model of crawler/crawl.js: the SPA-aware site crawler.                  *)
(*                                                                         *)
(* Strings are sequences of one-character strings, so that the regular     *)
(* expression replacements of the source are computed character by         *)
(* character.  An address is written without its origin: the part of the   *)
(* href that follows "https://example.com".                                *)
(***************************************************************************)
EXTENDS Integers, Sequences, FiniteSets, TLC

\* ------------------------------------------------------------------------
\* Bounds of the model
\* ------------------------------------------------------------------------
MaxLen == 4        \* longest address drawn for the normalizer specification
MaxBudget == 4     \* largest MAX_PAGES drawn
NumFingerprints == 4 \* distinct content fingerprints the site can render

\* ------------------------------------------------------------------------
\* Characters and strings
\* ------------------------------------------------------------------------
Null == <<"null">>

LowerSeq == <<"a","b","c","d","e","f","g","h","i","j","k","l","m",
              "n","o","p","q","r","s","t","u","v","w","x","y","z">>
UpperSeq == <<"A","B","C","D","E","F","G","H","I","J","K","L","M",
              "N","O","P","Q","R","S","T","U","V","W","X","Y","Z">>
DigitSeq == <<"0","1","2","3","4","5","6","7","8","9">>

LowerSet == {LowerSeq[n] : n \in DOMAIN LowerSeq}
UpperSet == {UpperSeq[n] : n \in DOMAIN UpperSeq}
DigitSet == {DigitSeq[n] : n \in DOMAIN DigitSeq}

IsSpace(c) == c = " "

\* String.prototype.toLowerCase
toLowerCase(s) ==
    [i \in DOMAIN s |->
        IF s[i] \in UpperSet THEN LowerSeq[CHOOSE n \in DOMAIN UpperSeq : UpperSeq[n] = s[i]]
        ELSE s[i]]

\* s.slice(n) with 0-based n, as SubSeq
Drop(s, n) == SubSeq(s, n + 1, Len(s))

startsWith(s, p) == Len(s) >= Len(p) /\ SubSeq(s, 1, Len(p)) = p

\* index of the first occurrence of character c in s, 0 when absent
IndexOf(s, c) ==
    IF \E i \in DOMAIN s : s[i] = c
    THEN CHOOSE i \in DOMAIN s : s[i] = c /\ \A j \in 1..(i - 1) : s[j] # c
    ELSE 0

\* .replace(/\/+$/, ""): every trailing "/" removed
RECURSIVE StripTrailingSlashes(_)
StripTrailingSlashes(s) ==
    IF s # <<>> /\ s[Len(s)] = "/" THEN StripTrailingSlashes(SubSeq(s, 1, Len(s) - 1)) ELSE s

\* .replace(/^#\/?/, ""): a leading "#" and one "/" after it removed
StripLeadingHash(s) ==
    IF s # <<>> /\ s[1] = "#"
    THEN IF Len(s) >= 2 /\ s[2] = "/" THEN Drop(s, 2) ELSE Drop(s, 1)
    ELSE s

\* .replace(/^\//, ""): one leading "/" removed
StripLeadingSlash(s) == IF s # <<>> /\ s[1] = "/" THEN Drop(s, 1) ELSE s

\* ------------------------------------------------------------------------
\* Addresses
\* ------------------------------------------------------------------------
\* BASE_URL without its origin: the default "https://example.com"
BASE_URL == <<>>

\* new URL(urlStr): pathname, search and hash of a same-origin http address.
\* The pathname of an http URL is never empty; the hash getter yields ""
\* for an absent or empty fragment.
ParseURL(s) ==
    LET h == IndexOf(s, "#")
        beforeHash == IF h = 0 THEN s ELSE SubSeq(s, 1, h - 1)
        frag == IF h = 0 THEN <<>> ELSE Drop(s, h)
        q == IndexOf(beforeHash, "?")
        rawPath == IF q = 0 THEN beforeHash ELSE SubSeq(beforeHash, 1, q - 1)
        search == IF q = 0 \/ q = Len(beforeHash) THEN <<>> ELSE Drop(beforeHash, q - 1)
    IN  [pathname |-> IF rawPath = <<>> \/ rawPath[1] # "/" THEN <<"/">> \o rawPath ELSE rawPath,
         search |-> search,
         hash |-> IF frag = <<>> THEN <<>> ELSE <<"#">> \o frag]

\* url.href of a parsed address
Href(u) == u.pathname \o u.search \o u.hash

\* u = new URL(BASE_URL); u.hash = rawHref; u.href
WithHash(base, rawHref) ==
    LET u == ParseURL(base)
        frag == IF rawHref # <<>> /\ rawHref[1] = "#" THEN Drop(rawHref, 1) ELSE rawHref
    IN  Href([u EXCEPT !.hash = IF frag = <<>> THEN <<>> ELSE <<"#">> \o frag])

routeKey_KeepTrailing(urlStr) ==
    LET url == ParseURL(urlStr)
    IN  IF url.hash # <<>> /\ Len(url.hash) > 1
        THEN LET hashPath == StripLeadingHash(url.hash)
             IN  IF hashPath = <<>> THEN <<"/">> ELSE <<"#", "/">> \o hashPath
        ELSE IF url.pathname = <<"/">> THEN <<"/">> ELSE url.pathname

routeKey(urlStr) ==
    LET url == ParseURL(urlStr)
    IN  IF url.hash # <<>> /\ Len(url.hash) > 1
        THEN LET hashPath == StripTrailingSlashes(StripLeadingHash(url.hash))
             IN  IF hashPath = <<>> THEN <<"/">> ELSE <<"#", "/">> \o hashPath
        ELSE LET p == StripTrailingSlashes(url.pathname)
             IN  IF p = <<>> THEN <<"/">> ELSE p

DotHtml == <<".", "h", "t", "m", "l">>
IndexHtml == <<"i", "n", "d", "e", "x">> \o DotHtml

\* cleaned.replace(/[?&=]/g, "_")
ReplaceSpecialChars(s) == [i \in DOMAIN s |-> IF s[i] \in {"?", "&", "="} THEN "_" ELSE s[i]]

routeToFilename(key) ==
    LET cleaned == StripTrailingSlashes(StripLeadingSlash(StripLeadingHash(key)))
    IN  IF cleaned = <<>> THEN IndexHtml
        ELSE LET c2 == ReplaceSpecialChars(cleaned)
             IN  IF Len(c2) >= 5 /\ SubSeq(c2, Len(c2) - 4, Len(c2)) = DotHtml THEN c2 ELSE c2 \o DotHtml

\* ------------------------------------------------------------------------
\* Labels and keys derived from labels
\* ------------------------------------------------------------------------
\* String.prototype.trim
RECURSIVE TrimLeft(_)
TrimLeft(s) == IF s # <<>> /\ IsSpace(s[1]) THEN TrimLeft(Drop(s, 1)) ELSE s

RECURSIVE TrimRight(_)
TrimRight(s) ==
    IF s # <<>> /\ IsSpace(s[Len(s)]) THEN TrimRight(SubSeq(s, 1, Len(s) - 1)) ELSE s

trim(s) == TrimRight(TrimLeft(s))

\* String.prototype.includes for a substring w
includes(s, w) == \E i \in 0..(Len(s) - Len(w)) : SubSeq(s, i + 1, i + Len(w)) = w

\* length of the leading run of [a-z_]
RECURSIVE IconRun(_)
IconRun(s) ==
    IF s # <<>> /\ (s[1] \in LowerSet \/ s[1] = "_") THEN 1 + IconRun(Drop(s, 1)) ELSE 0

\* .replace(/^[a-z_]+\s+/, ""): a leading icon word and the blanks after it
StripIconWord(s) ==
    LET n == IconRun(s)
    IN  IF n >= 1 /\ n < Len(s) /\ IsSpace(s[n + 1]) THEN TrimLeft(Drop(s, n)) ELSE s

\* .replace(/^[a-z_]+(?=[A-Z])/, ""): a leading icon prefix glued to a capital
StripIconPrefix(s) ==
    LET n == IconRun(s)
    IN  IF n >= 1 /\ n < Len(s) /\ s[n + 1] \in UpperSet THEN Drop(s, n) ELSE s

\* .replace(/[^a-z0-9\s-]/g, "")
RECURSIVE KeepSlugChars(_)
KeepSlugChars(s) ==
    IF s = <<>> THEN <<>>
    ELSE IF s[1] \in LowerSet \/ s[1] \in DigitSet \/ IsSpace(s[1]) \/ s[1] = "-"
         THEN <<s[1]>> \o KeepSlugChars(Drop(s, 1))
         ELSE KeepSlugChars(Drop(s, 1))

\* .replace(/\s+/g, "-")
RECURSIVE SpacesToDash(_)
SpacesToDash(s) ==
    IF s = <<>> THEN <<>>
    ELSE IF IsSpace(s[1]) THEN <<"-">> \o SpacesToDash(TrimLeft(s))
         ELSE <<s[1]>> \o SpacesToDash(Drop(s, 1))

\* .replace(/-+/g, "-")
RECURSIVE CollapseDashes(_)
CollapseDashes(s) ==
    IF Len(s) < 2 THEN s
    ELSE IF s[1] = "-" /\ s[2] = "-" THEN CollapseDashes(Drop(s, 1))
         ELSE <<s[1]>> \o CollapseDashes(Drop(s, 1))

\* .replace(/^-|-$/g, "")
StripEdgeDashes(s) ==
    LET a == IF s # <<>> /\ s[1] = "-" THEN Drop(s, 1) ELSE s
    IN  IF a # <<>> /\ a[Len(a)] = "-" THEN SubSeq(a, 1, Len(a) - 1) ELSE a

Slugify(cleaned) ==
    StripEdgeDashes(CollapseDashes(SpacesToDash(KeepSlugChars(toLowerCase(cleaned)))))

\* /collapse/i, /expand/i, /search/i, /close/i, /toggle/i, /menu/i,
\* /hamburger/i, /settings/i
skipPatterns ==
    { <<"c","o","l","l","a","p","s","e">>, <<"e","x","p","a","n","d">>,
      <<"s","e","a","r","c","h">>, <<"c","l","o","s","e">>, <<"t","o","g","g","l","e">>,
      <<"m","e","n","u">>, <<"h","a","m","b","u","r","g","e","r">>,
      <<"s","e","t","t","i","n","g","s">> }

labelToRouteKey(label) ==
    IF \E p \in skipPatterns : includes(toLowerCase(label), p) THEN Null
    ELSE LET c1 == trim(StripIconWord(label))
             c2 == IF ~includes(c1, <<" ">>) THEN StripIconPrefix(c1) ELSE c1
             cleaned == IF c2 = <<>> THEN trim(label) ELSE c2
             slug == Slugify(cleaned)
         IN  IF slug # <<>> THEN <<"#", "/">> \o slug ELSE Null


\* .replace(/\s*Word\s*/gi, " ")
RECURSIVE ReplaceBadge(_, _)
ReplaceBadge(s, w) ==
    IF s = <<>> THEN <<>>
    ELSE LET t == TrimLeft(s)
         IN  IF Len(t) >= Len(w) /\ toLowerCase(SubSeq(t, 1, Len(w))) = w
             THEN <<" ">> \o ReplaceBadge(TrimLeft(Drop(t, Len(w))), w)
             ELSE <<s[1]>> \o ReplaceBadge(Drop(s, 1), w)

ComponentsPrefix == <<"#","/","c","o","m","p","o","n","e","n","t","s">>

labelToComponentDetailRouteKey(label) ==
    IF label = Null \/ label = <<>> THEN Null
    ELSE LET cleaned == trim(ReplaceBadge(ReplaceBadge(ReplaceBadge(label,
                                 <<"c","o","m","p","l","e","t","e">>), <<"b","e","t","a">>),
                                 <<"n","e","w">>))
         IN  IF cleaned = <<>> THEN Null
             ELSE LET slug == Slugify(cleaned)
                  IN  IF slug # <<>> THEN ComponentsPrefix \o <<"/">> \o slug ELSE Null

\* k.replace(/^#\/?|\/$/g, "")
StripHashAndOneSlash(k) ==
    LET a == StripLeadingHash(k)
    IN  IF a # <<>> /\ a[Len(a)] = "/" THEN SubSeq(a, 1, Len(a) - 1) ELSE a

\* a || b
OrElse(a, b) == IF a = Null THEN b ELSE a

\* k.replace(...) || null
SlugOfKey(k) == IF k = Null THEN Null ELSE OrElse(StripHashAndOneSlash(k), Null)

labelToSlug(label) ==
    IF label = Null \/ label = <<>> THEN Null ELSE SlugOfKey(labelToRouteKey(label))

\* path ? `${prefix}${path}/${slug}` : `${prefix}${slug}`
JoinContentKey(prefix, path, slug) ==
    IF path = <<>> THEN prefix \o slug ELSE prefix \o path \o <<"/">> \o slug

\* the part of deriveContentRouteKey after base and slug are known
ContentKeyUnder(base, slug) ==
    IF slug = Null THEN Null
    ELSE JoinContentKey(IF startsWith(base, <<"#">>) THEN <<"#", "/">> ELSE <<"/">>,
                        StripTrailingSlashes(StripLeadingHash(base)), slug)

deriveContentRouteKey(fromKey, label) ==
    ContentKeyUnder(trim(StripTrailingSlashes(IF fromKey = Null \/ fromKey = <<>> THEN <<"/">> ELSE fromKey)),
                    labelToSlug(label))

\* ------------------------------------------------------------------------
\* The site: what the browser surface can return
\* ------------------------------------------------------------------------
MaxSeeds == 2      \* longest list of sidebar items the landing page offers
MaxLabels == 2     \* longest list of clickable labels a page offers

T_Api == <<"A","p","i">>
T_Usage == <<"U","s","a","g","e">>
T_Close == <<"C","l","o","s","e">>

U_Root == <<"/">>

\* the sidebar elements of the landing page, in document order, as
\* page.evaluate of seedSidebarRoutesFromPage can return them
NavItemOrder ==
    << [rawText |-> T_Api, cleaned |-> T_Api, href |-> Null],
       [rawText |-> <<"D","o","c","s">>, cleaned |-> <<"D","o","c","s">>,
        href |-> <<"/","d","o","c","s">>],
       [rawText |-> <<"H","o","m","e">>, cleaned |-> <<"H","o","m","e">>,
        href |-> <<"#","/">>] >>

\* the elements of the site matching CLICKABLE_QUERY, in document order:
\* their textContent and the text of the heading inside them
ClickableOrder ==
    << [raw |-> T_Close, heading |-> Null],
       [raw |-> T_Api, heading |-> T_Api],
       [raw |-> T_Usage, heading |-> Null],
       [raw |-> <<"C","o","l","l","a","p","s","e">>, heading |-> Null] >>

\* the divs of the site holding one h3, in document order: here the card
\* wrapped around the control "Api"
CardOrder == << [raw |-> <<" ">> \o T_Api \o <<" ">>, h3 |-> T_Api, cardLike |-> TRUE] >>

\* raw href attributes of the <a href> elements of the site, in document order
HrefOrder == << <<"#","/","f","a","q">>, <<"/","a","p","i">> >>

\* addresses page.url() can report after a click
SiteUrls ==
    { U_Root, <<"/","a","p","i">>, <<"/","d","o","c","s">>,
      <<"/","#","/","a","p","i","/","u","s","a","g","e">> }

Fingerprints == 1..NumFingerprints

\* the elements of a set of positions, as an increasing sequence
RECURSIVE Ascending(_)
Ascending(S) ==
    IF S = {} THEN <<>>
    ELSE LET m == CHOOSE x \in S : \A y \in S : x <= y
         IN  <<m>> \o Ascending(S \ {m})

\* what a page can show of a document-ordered list: up to n of its elements,
\* in document order
Shown(order, n) ==
    { [p \in DOMAIN Ascending(S) |-> order[Ascending(S)[p]]] :
        S \in {T \in SUBSET DOMAIN order : Cardinality(T) <= n} }

\* ------------------------------------------------------------------------
\* State
\* ------------------------------------------------------------------------
VARIABLES
    MAX_PAGES,        \* crawl.js:27
    navItems,         \* what the landing page offers as sidebar elements
    pc,               \* position of main()
    pageUrl,          \* page.url()
    pageFp,           \* what getContentFingerprint(page) returns now
    capturedRoutes,   \* crawl.js:34, in insertion order
    discoveredRoutes, \* crawl.js:36
    seeded,           \* main: result of seedSidebarRoutesFromPage
    i,                \* main: index of the seeded item of the loop
    fromKey,          \* discoverAndCapture: parameter
    allLabels,        \* discoverAndCapture: labels collected once
    j,                \* discoverAndCapture: index of the label of the loop
    key,              \* discoverAndCapture: key of the view about to be captured
    urlChanged,       \* discoverAndCapture: urlAfter !== urlBefore
    newRouteUrls,     \* discoverAndCapture: addresses found by href scanning
    writtenFiles,     \* main: file names written
    manifest,         \* main: manifest entries
    w,                \* main: index of the record of the write loop
    manifestWritten,  \* manifest.json exists in OUTPUT_DIR
    baseView,         \* the view the site shows for the sidebar button of seeded[i]
    outcome,          \* history: how the last capture attempt ended
    failure,          \* history: the collaborator call that threw
    norm,             \* the normalizer under test (second specification)
    unit              \* the page emitter under test (further specifications)

vars == <<MAX_PAGES, navItems, pc, pageUrl, pageFp, capturedRoutes, discoveredRoutes,
          seeded, i, fromKey, allLabels, j, key, urlChanged, newRouteUrls,
          writtenFiles, manifest, w, manifestWritten, baseView, outcome, failure, norm, unit>>

siteVars == <<MAX_PAGES, navItems>>
pageVars == <<pageUrl, pageFp>>
dacVars == <<fromKey, allLabels, j, key, urlChanged, newRouteUrls>>
writeVars == <<writtenFiles, manifest, w, manifestWritten>>

UnitIdle == [phase |-> "idle"]

NormIdle == [phase |-> "idle", a |-> <<>>, b |-> <<>>, keyA |-> Null, keyB |-> Null,
             againA |-> Null,
             fileA |-> Null, fileB |-> Null]

\* ------------------------------------------------------------------------
\* Map operations on capturedRoutes
\* ------------------------------------------------------------------------
Keys(m) == {m[n].key : n \in DOMAIN m}

has(m, k) == k \in Keys(m)

set_Prepend(m, k, v) == <<v>> \o m

\* Map.prototype.set: a present key keeps its place and gets the new value
set(m, k, v) ==
    IF has(m, k) THEN [n \in DOMAIN m |-> IF m[n].key = k THEN v ELSE m[n]]
    ELSE Append(m, v)

\* [...capturedRoutes.values()].some(r => r._fingerprint === fingerprint)
duplicateFingerprint_LandingOnly(fp) ==
    capturedRoutes # <<>> /\ capturedRoutes[1].fingerprint = fp

duplicateFingerprint(fp) ==
    \E n \in DOMAIN capturedRoutes : capturedRoutes[n].fingerprint = fp

\* ------------------------------------------------------------------------
\* seedSidebarRoutesFromPage, the part after page.evaluate
\* ------------------------------------------------------------------------
\* BASE_URL.replace(/\/$/, "")
SeedBase == IF BASE_URL # <<>> /\ BASE_URL[Len(BASE_URL)] = "/"
            THEN SubSeq(BASE_URL, 1, Len(BASE_URL) - 1) ELSE BASE_URL

\* new URL(href, base).href for a relative reference
ResolveHref(href, base) ==
    IF startsWith(href, <<"/">>) THEN Href(ParseURL(href))
    ELSE Href(ParseURL(<<"/">> \o href))

\* the key taken from the href attribute of a sidebar element
SeedHrefKey(h) ==
    IF h # Null /\ startsWith(h, <<"#">>) THEN routeKey(WithHash(SeedBase, h))
    ELSE IF h # Null /\ ~startsWith(h, <<"h","t","t","p">>) /\ ~startsWith(h, <<"/","/">>)
         THEN routeKey(ResolveHref(h, SeedBase))
         ELSE Null

SeedItemKey(it) == OrElse(SeedHrefKey(it.href), labelToRouteKey(it.rawText))

SeedUrl_ExtraSlash(k) == SeedBase \o <<"/">> \o k

\* url: base + key
SeedUrl(k) == SeedBase \o k

\* the loop over the sidebar elements: k is the key of the first of items
RECURSIVE SeedResults(_, _)
SeedStep(k, items, seenKeys) ==
    IF k # Null /\ k \notin seenKeys
    THEN <<[key |-> k, url |-> SeedUrl(k), buttonText |-> Head(items).rawText]>>
         \o SeedResults(Tail(items), seenKeys \cup {k})
    ELSE SeedResults(Tail(items), seenKeys)

SeedResults(items, seenKeys) ==
    IF items = <<>> THEN <<>> ELSE SeedStep(SeedItemKey(Head(items)), items, seenKeys)

seedSidebarRoutesFromPage(items) == SeedResults(items, {})

\* ------------------------------------------------------------------------
\* href scanning of discoverAndCapture
\* ------------------------------------------------------------------------
MaxHrefs == 1      \* longest list of <a href> elements a page holds
MaxCards == 1      \* longest list of card-like divs a page holds

\* the address an <a href> element stands for: a fragment-only reference is
\* put on BASE_URL, any other same-origin reference is taken resolved
HrefFullUrl(rawHref) ==
    IF startsWith(rawHref, <<"#">>) THEN WithHash(BASE_URL, rawHref)
    ELSE ResolveHref(rawHref, BASE_URL)

\* the loop over hrefs: acc is [disc |-> discoveredRoutes, urls |-> newRouteUrls]
ScanAdd(acc, full, k, captured) ==
    IF k # Null /\ k \notin acc.disc /\ k \notin captured
    THEN [disc |-> acc.disc \cup {k}, urls |-> Append(acc.urls, full)]
    ELSE acc

ScanOne(acc, full, captured) == ScanAdd(acc, full, routeKey(full), captured)

RECURSIVE ScanHrefs(_, _, _)
ScanHrefs(hrefs, acc, captured) ==
    IF hrefs = <<>> THEN acc
    ELSE ScanHrefs(Tail(hrefs), ScanOne(acc, HrefFullUrl(Head(hrefs)), captured), captured)

\* ------------------------------------------------------------------------
\* main(): loading the site and capturing the landing page
\* ------------------------------------------------------------------------
LandingFp == 1

\* getContentFingerprint after a click: the fingerprint of a captured record,
\* the one the page had before, or one not met so far. Fingerprints are only
\* ever compared for equality, so the contents not met so far are numbered
\* in order of appearance.
Renderable ==
    LET used == ({capturedRoutes[n].fingerprint : n \in DOMAIN capturedRoutes} \cup {pageFp})
                    \cap Fingerprints
        fresh == Fingerprints \ used
    IN  used \cup (IF fresh = {} THEN {} ELSE {CHOOSE f \in fresh : \A g \in fresh : f <= g})

Init ==
    /\ MAX_PAGES \in 1..MaxBudget
    /\ navItems \in Shown(NavItemOrder, MaxSeeds)
    /\ pc = "start"
    /\ pageUrl = Null
    /\ pageFp = 0
    /\ capturedRoutes = <<>>
    /\ discoveredRoutes = {}
    /\ seeded = <<>>
    /\ i = 1
    /\ fromKey = Null
    /\ allLabels = <<>>
    /\ j = 1
    /\ key = Null
    /\ urlChanged = FALSE
    /\ newRouteUrls = <<>>
    /\ writtenFiles = {}
    /\ manifest = <<>>
    /\ w = 1
    /\ manifestWritten = FALSE
    /\ baseView = Null
    /\ outcome = "none"
    /\ failure = "none"
    /\ norm = NormIdle
    /\ unit = UnitIdle


\* main().catch: the rejection of main ends the process with exit code 1
\* and with it the browser page and the locals of the calls that were running
Fatal(kind) ==
    /\ pc' = "fatal"
    /\ failure' = kind
    /\ pageUrl' = Null
    /\ pageFp' = 0
    /\ i' = 1
    /\ fromKey' = Null
    /\ allLabels' = <<>>
    /\ j' = 1
    /\ key' = Null
    /\ urlChanged' = FALSE
    /\ newRouteUrls' = <<>>
    /\ baseView' = Null
    /\ outcome' = "none"
    /\ UNCHANGED <<siteVars, capturedRoutes, discoveredRoutes, seeded, writeVars, norm, unit>>

\* await page.goto(BASE_URL, ...) of Step 1 resolves
LoadSite ==
    /\ pc = "start"
    /\ pageUrl' = U_Root
    /\ pageFp' = LandingFp
    /\ pc' = "landing"
    /\ UNCHANGED <<siteVars, capturedRoutes, discoveredRoutes, seeded, i, dacVars,
                   writeVars, baseView, outcome, failure, norm, unit>>

LoadSiteFails_Swallowed ==
    /\ pc = "start"
    /\ pageUrl' = U_Root
    /\ pageFp' = LandingFp
    /\ pc' = "landing"
    /\ failure' = "seedLoad"
    /\ UNCHANGED <<siteVars, capturedRoutes, discoveredRoutes, seeded, i, dacVars,
                   writeVars, baseView, outcome, norm, unit>>

\* await page.goto(BASE_URL, ...) of Step 1 rejects
LoadSiteFails ==
    /\ pc = "start"
    /\ Fatal("seedLoad")

CaptureLanding ==
    /\ pc = "landing"
    /\ \E landingKey \in {OrElse(routeKey(pageUrl), <<"/">>)} :
           /\ capturedRoutes' = set(capturedRoutes, landingKey,
                                    [key |-> landingKey, url |-> pageUrl, fingerprint |-> pageFp])
           /\ discoveredRoutes' = discoveredRoutes \cup {landingKey}
    /\ outcome' = "captured"
    /\ pc' = "seed"
    /\ UNCHANGED <<siteVars, pageVars, seeded, i, dacVars, writeVars, baseView, failure, norm, unit>>

\* one of extractCleanHTML, extractAllCSS, page.title, extractAssetUrls rejects
CaptureLandingFails ==
    /\ pc = "landing"
    /\ Fatal("extractLanding")

\* Step 1b
SeedBasePages ==
    /\ pc = "seed"
    /\ seeded' = seedSidebarRoutesFromPage(navItems)
    /\ discoveredRoutes' = discoveredRoutes \cup {seeded'[n].key : n \in DOMAIN seeded'}
    /\ i' = 1
    /\ outcome' = "none"
    /\ pc' = "loop"
    /\ UNCHANGED <<siteVars, pageVars, capturedRoutes, dacVars, writeVars, baseView,
                   failure, norm, unit>>

\* ------------------------------------------------------------------------
\* main(): Step 2, the loop over the seeded items
\* ------------------------------------------------------------------------
\* capturedRoutes.size >= MAX_PAGES
BudgetReached == Len(capturedRoutes) >= MAX_PAGES

SeededLoopEnds_BrowserOpen ==
    /\ pc = "loop"
    /\ i > Len(seeded) \/ BudgetReached
    /\ pc' = "write"
    /\ w' = 1
    /\ outcome' = "none"
    /\ UNCHANGED <<siteVars, pageVars, capturedRoutes, discoveredRoutes, seeded, i, dacVars,
                   writtenFiles, manifest, manifestWritten, baseView, failure, norm, unit>>

\* the loop ends or breaks; await browser.close()
SeededLoopEnds ==
    /\ pc = "loop"
    /\ i > Len(seeded) \/ BudgetReached
    /\ pc' = "write"
    /\ w' = 1
    /\ pageUrl' = Null
    /\ pageFp' = 0
    /\ outcome' = "none"
    /\ UNCHANGED <<siteVars, capturedRoutes, discoveredRoutes, seeded, i, dacVars,
                   writtenFiles, manifest, manifestWritten, baseView, failure, norm, unit>>

SeededSkipCaptured ==
    /\ pc = "loop"
    /\ i <= Len(seeded)
    /\ ~BudgetReached
    /\ has(capturedRoutes, seeded[i].key)
    /\ outcome' = "duplicateKey"
    /\ pc' = "seedNext"
    /\ UNCHANGED <<siteVars, pageVars, capturedRoutes, discoveredRoutes, seeded, i,
                   dacVars, writeVars, baseView, failure, norm, unit>>

SeededNext_Retry ==
    /\ pc = "seedNext"
    /\ i' = i
    /\ outcome' = "none"
    /\ pc' = "loop"
    /\ UNCHANGED <<siteVars, pageVars, capturedRoutes, discoveredRoutes, seeded,
                   dacVars, writeVars, baseView, failure, norm, unit>>

\* continue, or the end of the loop body: the next seeded item
SeededNext ==
    /\ pc = "seedNext"
    /\ i' = i + 1
    /\ outcome' = "none"
    /\ pc' = "loop"
    /\ UNCHANGED <<siteVars, pageVars, capturedRoutes, discoveredRoutes, seeded,
                   dacVars, writeVars, baseView, failure, norm, unit>>

SeededReloadEnabled ==
    /\ pc = "loop"
    /\ i <= Len(seeded)
    /\ ~BudgetReached
    /\ ~has(capturedRoutes, seeded[i].key)

\* await page.goto(BASE_URL, ...) of the loop resolves
SeededReload ==
    /\ SeededReloadEnabled
    /\ pageUrl' = U_Root
    /\ pageFp' = LandingFp
    /\ outcome' = "none"
    /\ pc' = "seedClick"
    /\ UNCHANGED <<siteVars, capturedRoutes, discoveredRoutes, seeded, i, dacVars,
                   writeVars, baseView, failure, norm, unit>>

\* await page.goto(BASE_URL, ...) of the loop rejects: nothing catches it
SeededReloadFails ==
    /\ SeededReloadEnabled
    /\ Fatal("reload")

\* clickByText on the sidebar button, then the two fingerprint checks
SeededClick ==
    /\ pc = "seedClick"
    /\ \/ /\ outcome' = "notFound"
          /\ pc' = "seedNext"
          /\ UNCHANGED pageVars
       \/ \E u \in SiteUrls, f \in Renderable :
            /\ pageUrl' = u
            /\ pageFp' = f
            /\ IF f = pageFp
               THEN outcome' = "noop" /\ pc' = "seedNext"
               ELSE IF duplicateFingerprint(f)
                    THEN outcome' = "duplicateFingerprint" /\ pc' = "seedNext"
                    ELSE outcome' = "new" /\ pc' = "seedCapture"
    /\ UNCHANGED <<siteVars, capturedRoutes, discoveredRoutes, seeded, i, dacVars,
                   writeVars, baseView, failure, norm, unit>>

\* extraction, capturedRoutes.set(item.key, ...), then the children
SeededCapture ==
    /\ pc = "seedCapture"
    /\ LET item == seeded[i]
       IN  /\ capturedRoutes' = set(capturedRoutes, item.key,
                                    [key |-> item.key, url |-> BASE_URL \o item.key,
                                     fingerprint |-> pageFp])
           /\ discoveredRoutes' = discoveredRoutes \cup {item.key}
           /\ IF Len(capturedRoutes') < MAX_PAGES
              THEN /\ fromKey' = item.key
                   /\ baseView' = [url |-> pageUrl, fp |-> pageFp]
                   /\ pc' = "dacScan"
              ELSE /\ fromKey' = fromKey
                   /\ baseView' = baseView
                   /\ pc' = "seedNext"
    /\ outcome' = "captured"
    /\ UNCHANGED <<siteVars, pageVars, seeded, i, allLabels, j, key, urlChanged, newRouteUrls,
                   writeVars, failure, norm, unit>>

SeededCaptureFails ==
    /\ pc = "seedCapture"
    /\ Fatal("extractSeeded")

\* ------------------------------------------------------------------------
\* discoverAndCapture(page, requestContext, item.key, item.label,
\*                    navigateToThisPage, sidebarLabels)
\* ------------------------------------------------------------------------
\* const isTopLevel = !fromKey || fromKey === "/" || fromKey === "#/" || fromKey === "#"
isTopLevel(fk) == fk = Null \/ fk = <<>> \/ fk = <<"/">> \/ fk = <<"#", "/">> \/ fk = <<"#">>

\* new Set(seeded.map(s => s.buttonText))
sidebarLabels == {seeded[n].buttonText : n \in DOMAIN seeded}

labelForKey(lbl) == IF lbl.shortLabel # Null /\ lbl.shortLabel # <<>> THEN lbl.shortLabel ELSE lbl.text

potentialKey(fk, label) ==
    IF isTopLevel(fk) THEN labelToRouteKey(label) ELSE deriveContentRouteKey(fk, label)

\* the key of a view reached by a click that left the address unchanged
ContentKey(fk, label) ==
    IF fk # Null /\ fk \in {ComponentsPrefix, Drop(ComponentsPrefix, 1)}
    THEN OrElse(labelToComponentDetailRouteKey(label), labelToRouteKey(label))
    ELSE IF isTopLevel(fk) THEN labelToRouteKey(label)
         ELSE OrElse(deriveContentRouteKey(fk, label), labelToRouteKey(label))

KeyRejected_NullOnly(k) == k = Null

\* if (!key || capturedRoutes.has(key))
KeyRejected(k) == k = Null \/ has(capturedRoutes, k)

\* key.replace(/^#\//, "")
StripHashSlash(k) == IF startsWith(k, <<"#", "/">>) THEN Drop(k, 2) ELSE k

\* ------------------------------------------------------------------------
\* collectClickableLabels(page)
\* ------------------------------------------------------------------------
\* .replace(/\s+/g, " ")
RECURSIVE CollapseSpaces(_)
CollapseSpaces(s) ==
    IF s = <<>> THEN <<>>
    ELSE IF IsSpace(s[1]) THEN <<" ">> \o CollapseSpaces(TrimLeft(s))
         ELSE <<s[1]>> \o CollapseSpaces(Tail(s))

\* (el.textContent || "").trim().replace(/\s+/g, " ")
NormalizedText(s) == CollapseSpaces(trim(s))

\* /collapse|search design|view ai|^copy$/i.test(raw), low being raw in lower case
CollectSkip(low) ==
    \/ includes(low, <<"c","o","l","l","a","p","s","e">>)
    \/ includes(low, <<"s","e","a","r","c","h"," ","d","e","s","i","g","n">>)
    \/ includes(low, <<"v","i","e","w"," ","a","i">>)
    \/ low = <<"c","o","p","y">>

\* seen.has(raw): raw is added to seen exactly when a result is pushed
seenHas_Never(results, raw) == FALSE

seenHas(results, raw) == \E n \in DOMAIN results : results[n].text = raw

\* the callback of the first forEach, raw being the normalized text
ClickableStep(results, raw, heading) ==
    IF raw = <<>> \/ CollectSkip(toLowerCase(raw)) \/ seenHas(results, raw) THEN results
    ELSE Append(results, [text |-> raw, shortLabel |-> IF heading = Null THEN Null ELSE NormalizedText(heading)])

RECURSIVE CollectClickables(_, _)
CollectClickables(els, results) ==
    IF els = <<>> THEN results
    ELSE CollectClickables(Tail(els),
                           ClickableStep(results, NormalizedText(Head(els).raw), Head(els).heading))

\* the callback of the second forEach: shortLabel || null
CardStep(results, raw, h3, cardLike) ==
    IF raw = <<>> \/ seenHas(results, raw) \/ ~cardLike THEN results
    ELSE Append(results, [text |-> raw, shortLabel |-> OrElse(IF h3 = <<>> THEN Null ELSE h3, Null)])

RECURSIVE CollectCards(_, _)
CollectCards(els, results) ==
    IF els = <<>> THEN results
    ELSE CollectCards(Tail(els),
                      CardStep(results, NormalizedText(Head(els).raw),
                               NormalizedText(Head(els).h3), Head(els).cardLike))

collectClickableLabels(clickables, cards) ==
    CollectCards(cards, CollectClickables(clickables, <<>>))

\* steps 1 and 2: href scan, collectClickableLabels
DacScan ==
    /\ pc = "dacScan"
    /\ \E hrefs \in Shown(HrefOrder, MaxHrefs), clickables \in Shown(ClickableOrder, MaxLabels),
          cards \in Shown(CardOrder, MaxCards) :
          \E r \in {ScanHrefs(hrefs, [disc |-> discoveredRoutes, urls |-> <<>>], Keys(capturedRoutes))} :
              /\ discoveredRoutes' = r.disc
              /\ newRouteUrls' = r.urls
              /\ allLabels' = collectClickableLabels(clickables, cards)
    /\ j' = 1
    /\ outcome' = "none"
    /\ pc' = "dacLabel"
    /\ UNCHANGED <<siteVars, pageVars, capturedRoutes, seeded, i, fromKey, key, urlChanged,
                   writeVars, baseView, failure, norm, unit>>

\* the loop over allLabels is over: newRouteUrls is returned to main, which
\* logs its length and goes to the next seeded item
DacReturn ==
    /\ pc = "dacLabel"
    /\ j > Len(allLabels)
    /\ i' = i + 1
    /\ pc' = "loop"
    /\ fromKey' = Null
    /\ allLabels' = <<>>
    /\ j' = 1
    /\ newRouteUrls' = <<>>
    /\ baseView' = Null
    /\ outcome' = "none"
    /\ UNCHANGED <<siteVars, pageVars, capturedRoutes, discoveredRoutes, seeded, key,
                   urlChanged, writeVars, failure, norm, unit>>

\* if (excludeLabels && excludeLabels.has(text)) continue
DacSkipExcluded ==
    /\ pc = "dacLabel"
    /\ j <= Len(allLabels)
    /\ allLabels[j].text \in sidebarLabels
    /\ outcome' = "excluded"
    /\ pc' = "dacNext"
    /\ UNCHANGED <<siteVars, pageVars, capturedRoutes, discoveredRoutes, seeded, i,
                   dacVars, writeVars, baseView, failure, norm, unit>>

DacNextLabel_Retry ==
    /\ pc = "dacNext"
    /\ j' = j
    /\ outcome' = "none"
    /\ pc' = "dacLabel"
    /\ UNCHANGED <<siteVars, pageVars, capturedRoutes, discoveredRoutes, seeded, i,
                   fromKey, allLabels, key, urlChanged, newRouteUrls, writeVars, baseView,
                   failure, norm, unit>>

\* continue: the next label, the page left as it is
DacNextLabel ==
    /\ pc = "dacNext"
    /\ j' = j + 1
    /\ outcome' = "none"
    /\ pc' = "dacLabel"
    /\ UNCHANGED <<siteVars, pageVars, capturedRoutes, discoveredRoutes, seeded, i,
                   fromKey, allLabels, key, urlChanged, newRouteUrls, writeVars, baseView,
                   failure, norm, unit>>

\* if (potentialKey && capturedRoutes.has(potentialKey)) continue
DacSkipKnown ==
    /\ pc = "dacLabel"
    /\ j <= Len(allLabels)
    /\ allLabels[j].text \notin sidebarLabels
    /\ \E pk \in {potentialKey(fromKey, labelForKey(allLabels[j]))} :
          pk # Null /\ has(capturedRoutes, pk)
    /\ outcome' = "duplicateKey"
    /\ pc' = "dacNext"
    /\ UNCHANGED <<siteVars, pageVars, capturedRoutes, discoveredRoutes, seeded, i,
                   dacVars, writeVars, baseView, failure, norm, unit>>

\* clickByText, the observation of address and fingerprint, the key, the
\* duplicate checks
DacClick ==
    /\ pc = "dacLabel"
    /\ j <= Len(allLabels)
    /\ allLabels[j].text \notin sidebarLabels
    /\ \E pk \in {potentialKey(fromKey, labelForKey(allLabels[j]))} :
          pk = Null \/ ~has(capturedRoutes, pk)
    /\ \/ \* the label is not on the page any more
          /\ outcome' = "notFound"
          /\ pc' = "dacNext"
          /\ UNCHANGED <<pageVars, key, urlChanged>>
       \/ \* the page navigated away under getContentFingerprint
          /\ pageUrl' = Null
          /\ pageFp' = 0
          /\ outcome' = "observeError"
          /\ pc' = "dacBack"
          /\ UNCHANGED <<key, urlChanged>>
       \/ \E u \in SiteUrls, f \in Renderable :
          \E k \in {IF u # pageUrl THEN routeKey(u)
                       ELSE ContentKey(fromKey, labelForKey(allLabels[j]))} :
                /\ pageUrl' = u
                /\ pageFp' = f
                /\ IF u = pageUrl /\ f = pageFp
                   THEN /\ outcome' = "noop"
                        /\ pc' = "dacNext"
                        /\ UNCHANGED <<key, urlChanged>>
                   ELSE IF KeyRejected(k)
                        THEN /\ outcome' = "duplicateKey"
                             /\ pc' = "dacBack"
                             /\ UNCHANGED <<key, urlChanged>>
                        ELSE IF duplicateFingerprint(f)
                             THEN /\ outcome' = "duplicateFingerprint"
                                  /\ pc' = "dacBack"
                                  /\ UNCHANGED <<key, urlChanged>>
                             ELSE /\ outcome' = "new"
                                  /\ pc' = "dacCapture"
                                  /\ key' = k
                                  /\ urlChanged' = (u # pageUrl)
    /\ UNCHANGED <<siteVars, capturedRoutes, discoveredRoutes, seeded, i, fromKey, allLabels, j,
                   newRouteUrls, writeVars, baseView, failure, norm, unit>>

\* extraction, capturedRoutes.set(key, ...), the scan of the sub-hrefs
DacCapture ==
    /\ pc = "dacCapture"
    /\ capturedRoutes' = set(capturedRoutes, key,
                             [key |-> key,
                              url |-> IF urlChanged THEN pageUrl
                                      ELSE BASE_URL \o <<"#", "/">> \o StripHashSlash(key),
                              fingerprint |-> pageFp])
    /\ \E subHrefs \in Shown(HrefOrder, MaxHrefs) :
          \E r \in {ScanHrefs(subHrefs, [disc |-> discoveredRoutes \cup {key}, urls |-> newRouteUrls], {})} :
              /\ discoveredRoutes' = r.disc
              /\ newRouteUrls' = r.urls
    /\ outcome' = "captured"
    /\ pc' = "dacBack"
    /\ UNCHANGED <<siteVars, pageVars, seeded, i, fromKey, allLabels, j, key, urlChanged,
                   writeVars, baseView, failure, norm, unit>>

DacCaptureFails ==
    /\ pc = "dacCapture"
    /\ Fatal("extractClick")

DacGoBack_Stay ==
    /\ pc = "dacBack"
    /\ UNCHANGED pageVars
    /\ j' = j + 1
    /\ key' = Null
    /\ urlChanged' = FALSE
    /\ outcome' = "none"
    /\ pc' = "dacLabel"
    /\ UNCHANGED <<siteVars, capturedRoutes, discoveredRoutes, seeded, i, fromKey, allLabels,
                   newRouteUrls, writeVars, baseView, failure, norm, unit>>

\* goBackToFromPage with navigateToThisPage: reload the site and click the
\* sidebar button of the base page again (the site shows the base page, or
\* stays on the landing page when the button is not found); then the next label
DacGoBack ==
    /\ pc = "dacBack"
    /\ \/ pageUrl' = U_Root /\ pageFp' = LandingFp
       \/ pageUrl' = baseView.url /\ pageFp' = baseView.fp
    /\ j' = j + 1
    /\ key' = Null
    /\ urlChanged' = FALSE
    /\ outcome' = "none"
    /\ pc' = "dacLabel"
    /\ UNCHANGED <<siteVars, capturedRoutes, discoveredRoutes, seeded, i, fromKey, allLabels,
                   newRouteUrls, writeVars, baseView, failure, norm, unit>>

\* the page.goto of navigateToThisPage rejects: nothing catches it
DacGoBackFails ==
    /\ pc = "dacBack"
    /\ Fatal("backtrack")

\* ------------------------------------------------------------------------
\* main(): Step 4, writing the static files
\* ------------------------------------------------------------------------
WriteRoute_PushFront ==
    /\ pc = "write"
    /\ w <= Len(capturedRoutes)
    /\ \E route \in {capturedRoutes[w]} :
          \E filename \in {routeToFilename(route.key)} :
             IF filename \in writtenFiles
             THEN UNCHANGED <<writtenFiles, manifest>>
             ELSE /\ writtenFiles' = writtenFiles \cup {filename}
                  /\ manifest' = <<[route |-> route.key, file |-> filename,
                                    url |-> route.url]>> \o manifest
    /\ w' = w + 1
    /\ UNCHANGED <<siteVars, pc, pageVars, capturedRoutes, discoveredRoutes, seeded, i,
                   dacVars, manifestWritten, baseView, outcome, failure, norm, unit>>

\* one turn of for (const [key, route] of capturedRoutes)
WriteRoute ==
    /\ pc = "write"
    /\ w <= Len(capturedRoutes)
    /\ \E route \in {capturedRoutes[w]} :
          \E filename \in {routeToFilename(route.key)} :
             IF filename \in writtenFiles
             THEN UNCHANGED <<writtenFiles, manifest>>
             ELSE /\ writtenFiles' = writtenFiles \cup {filename}
                  /\ manifest' = Append(manifest, [route |-> route.key, file |-> filename,
                                                   url |-> route.url])
    /\ w' = w + 1
    /\ UNCHANGED <<siteVars, pc, pageVars, capturedRoutes, discoveredRoutes, seeded, i,
                   dacVars, manifestWritten, baseView, outcome, failure, norm, unit>>

\* manifest.map(m => `<url><loc>${m.file}</loc></url>`) of sitemap.xml
sitemapEntries == [n \in DOMAIN manifest |-> manifest[n].file]

\* manifest.map(m => `<li><a href="${m.file}">...</a> <code>${m.route}</code></li>`)
\* of _sitemap.html
indexLinks == [n \in DOMAIN manifest |-> [file |-> manifest[n].file, route |-> manifest[n].route]]

\* manifest.json, sitemap.xml, .nojekyll and _sitemap.html are written
WriteManifest ==
    /\ pc = "write"
    /\ w > Len(capturedRoutes)
    /\ manifestWritten' = TRUE
    /\ pc' = "done"
    /\ UNCHANGED <<siteVars, pageVars, capturedRoutes, discoveredRoutes, seeded, i, dacVars,
                   writtenFiles, manifest, w, baseView, outcome, failure, norm, unit>>

Next ==
    \/ LoadSite
    \/ LoadSiteFails
    \/ CaptureLanding
    \/ CaptureLandingFails
    \/ SeedBasePages
    \/ SeededLoopEnds
    \/ SeededSkipCaptured
    \/ SeededNext
    \/ SeededReload
    \/ SeededReloadFails
    \/ SeededClick
    \/ SeededCapture
    \/ SeededCaptureFails
    \/ DacScan
    \/ DacReturn
    \/ DacSkipExcluded
    \/ DacSkipKnown
    \/ DacNextLabel
    \/ DacClick
    \/ DacCapture
    \/ DacCaptureFails
    \/ DacGoBack
    \/ DacGoBackFails
    \/ WriteRoute
    \/ WriteManifest

Spec == Init /\ [][Next]_vars

\* ------------------------------------------------------------------------
\* The normalizer on its own: routeKey and routeToFilename applied to
\* addresses drawn from a bounded set
\* ------------------------------------------------------------------------
\* same-origin addresses of at most n characters after the origin
Addresses(n) ==
    UNION { { q \in [1..m -> {"/", "#", "a"}] : m > 0 => q[1] \in {"/", "#"} } : m \in 0..n }

InitNorm ==
    /\ MAX_PAGES = 1
    /\ navItems = <<>>
    /\ pc = "norm"
    /\ pageUrl = Null
    /\ pageFp = 0
    /\ capturedRoutes = <<>>
    /\ discoveredRoutes = {}
    /\ seeded = <<>>
    /\ i = 1
    /\ fromKey = Null
    /\ allLabels = <<>>
    /\ j = 1
    /\ key = Null
    /\ urlChanged = FALSE
    /\ newRouteUrls = <<>>
    /\ writtenFiles = {}
    /\ manifest = <<>>
    /\ w = 1
    /\ manifestWritten = FALSE
    /\ baseView = Null
    /\ outcome = "none"
    /\ failure = "none"
    /\ \E x \in Addresses(MaxLen), y \in Addresses(MaxLen) :
          norm = [NormIdle EXCEPT !.phase = "drawn", !.a = x, !.b = y]
    /\ unit = UnitIdle

mainVars == <<MAX_PAGES, navItems, pc, pageUrl, pageFp, capturedRoutes, discoveredRoutes,
              seeded, i, fromKey, allLabels, j, key, urlChanged, newRouteUrls,
              writtenFiles, manifest, w, manifestWritten, baseView, outcome, failure>>

ApplyRouteKey ==
    /\ norm.phase = "drawn"
    /\ norm' = [norm EXCEPT !.phase = "keyed", !.keyA = routeKey(norm.a), !.keyB = routeKey(norm.b)]
    /\ UNCHANGED <<mainVars, unit>>

ApplyRouteToFilename ==
    /\ norm.phase = "keyed"
    /\ norm' = [norm EXCEPT !.phase = "named", !.fileA = routeToFilename(norm.keyA),
                            !.fileB = routeToFilename(norm.keyB)]
    /\ UNCHANGED <<mainVars, unit>>

\* the address the crawler builds for a key, normalized again
ApplyRoundTrip ==
    /\ norm.phase = "keyed"
    /\ norm.keyA # Null
    /\ norm' = [norm EXCEPT !.phase = "rebuilt", !.againA = routeKey(SeedUrl(norm.keyA))]
    /\ UNCHANGED <<mainVars, unit>>

NextNorm ==
    \/ ApplyRouteKey
    \/ ApplyRouteToFilename
    \/ ApplyRoundTrip

SpecNorm == InitNorm /\ [][NextNorm]_vars

\* ------------------------------------------------------------------------
\* Properties
\* ------------------------------------------------------------------------

\* C1: no two records of capturedRoutes have equal fingerprints, and a view
\* whose fingerprint equals that of a captured record never reaches the
\* insertion (it is skipped, so capturedRoutes does not grow).
C1_NoTwoRecordsSameFingerprint ==
    /\ \A m, n \in DOMAIN capturedRoutes :
          m # n => capturedRoutes[m].fingerprint # capturedRoutes[n].fingerprint
    /\ pc \in {"seedCapture", "dacCapture"} =>
          \A n \in DOMAIN capturedRoutes : capturedRoutes[n].fingerprint # pageFp

\* a click reached, under a key that is not captured, a view whose
\* fingerprint is the one of a captured record, and the view was skipped
C1_Witness ==
    /\ pc = "dacBack"
    /\ outcome = "duplicateFingerprint"
    /\ Len(capturedRoutes) >= 2
    /\ duplicateFingerprint(pageFp)
    /\ pageUrl # Null
    /\ ~has(capturedRoutes, routeKey(pageUrl))

\* C2: once a key is in capturedRoutes its record is never replaced or
\* removed: every step keeps every record at its place, so the landing
\* record stays the first one up to the write phase.
C2_RecordsNeverReplaced ==
    [][\A n \in DOMAIN capturedRoutes :
          n \in DOMAIN capturedRoutes' /\ capturedRoutes'[n] = capturedRoutes[n]]_vars

\* a click led to the landing key with content that differs from the landing
\* view, and was skipped
C2_Witness ==
    /\ pc = "dacBack"
    /\ outcome = "duplicateKey"
    /\ pageUrl # Null
    /\ routeKey(pageUrl) = capturedRoutes[1].key
    /\ pageFp # capturedRoutes[1].fingerprint
    /\ ~duplicateFingerprint(pageFp)

\* C3: capturedRoutes.size <= MAX_PAGES in every reachable state.
C3_SizeWithinBudget == Len(capturedRoutes) <= MAX_PAGES

\* the keys of the seeded items the loop of main has gone through
Attempted == {seeded[n].key : n \in {m \in DOMAIN seeded : m < i}}

\* C4: when the write phase starts, the budget is reached or every key of
\* discoveredRoutes has been captured or has had a navigation attempted.
C4_FrontierExhausted ==
    pc = "write" =>
        \/ Len(capturedRoutes) >= MAX_PAGES
        \/ discoveredRoutes \subseteq (Keys(capturedRoutes) \cup Attempted)

\* C5: a failed address load after the landing capture (the reload of the
\* seeded loop, the reload of navigateToThisPage) does not end the run.
C5_LoadFailureNotFatal == ~(pc = "fatal" /\ failure \in {"reload", "backtrack"})

\* C6: a failed extraction for a view reached by a click drops only that
\* view and does not end the run.
C6_ExtractionFailureNotFatal == ~(pc = "fatal" /\ failure \in {"extractSeeded", "extractClick"})

\* C7: when the first load of the seed address fails, the run ends with a
\* fatal error, capturedRoutes is empty and no page file and no manifest is
\* written.
C7_SeedLoadFailureIsFatal ==
    failure = "seedLoad" =>
        /\ pc = "fatal"
        /\ capturedRoutes = <<>>
        /\ writtenFiles = {}
        /\ manifest = <<>>
        /\ ~manifestWritten

C7_Witness == failure = "seedLoad" /\ pc = "fatal" /\ pageUrl = Null

\* C8: at the end of the write phase every record of capturedRoutes has one
\* written page file and one manifest entry.
C8_EverythingEmitted ==
    pc = "done" =>
        /\ Len(manifest) = Len(capturedRoutes)
        /\ Cardinality(writtenFiles) = Len(capturedRoutes)

\* C9: any two distinct keys that are in capturedRoutes together have
\* distinct file names.
C9_DistinctKeysDistinctFiles ==
    \A m, n \in DOMAIN capturedRoutes :
        capturedRoutes[m].key # capturedRoutes[n].key =>
            routeToFilename(capturedRoutes[m].key) # routeToFilename(capturedRoutes[n].key)

\* the addresses that denote the landing view: the bare root address, with
\* an empty fragment, with the fragment "#/"
LandingAddresses ==
    { <<>>, <<"/">>, <<"#">>, <<"/", "#">>, <<"#", "/">>, <<"/", "#", "/">> }

\* an address with one more trailing "/": at the end of its path, or at the
\* end of its hash path when it has a fragment
TrailingVariants(a) ==
    LET h == IndexOf(a, "#")
    IN  IF h = 0 THEN {a \o <<"/">>}
        ELSE {SubSeq(a, 1, h - 1) \o <<"/">> \o Drop(a, h - 1)}
             \cup (IF h < Len(a) THEN {a \o <<"/">>} ELSE {})

RECURSIVE SplitSlash(_)
SplitStep(s, n) ==
    IF n = 0 THEN <<s>> ELSE <<SubSeq(s, 1, n - 1)>> \o SplitSlash(Drop(s, n))

SplitSlash(s) == SplitStep(s, IndexOf(s, "/"))

NonEmptySegment(x) == x # <<>>

\* the segments of a normalized relative path
Segments(p) == SelectSeq(SplitSlash(p), NonEmptySegment)

RECURSIVE JoinSlash(_)
JoinSlash(segs) ==
    IF segs = <<>> THEN <<>>
    ELSE IF Len(segs) = 1 THEN segs[1]
         ELSE segs[1] \o <<"/">> \o JoinSlash(Tail(segs))

\* path.dirname(file), as segments: none for "."
DirSegments(file) == SubSeq(Segments(file), 1, Len(Segments(file)) - 1)

RECURSIVE CommonLen(_, _)
CommonLen(a, b) ==
    IF a # <<>> /\ b # <<>> /\ a[1] = b[1] THEN 1 + CommonLen(Tail(a), Tail(b)) ELSE 0

\* one ".." for every segment of from after the common part, then the rest of to
RelativeSegments(from, to, c) ==
    [n \in 1..(Len(from) - c) |-> <<".", ".">>] \o SubSeq(to, c + 1, Len(to))

\* path.relative(fromDir, toFile)
relative(fromDir, toFile) == JoinSlash(RelativeSegments(fromDir, toFile, CommonLen(fromDir, toFile)))

\* if (!rel.startsWith(".")) rel = "./" + rel
DotSlash(rel) == IF startsWith(rel, <<".">>) THEN rel ELSE <<".", "/">> \o rel

\* the rel of rewriteLinks and of makeLink
RelHref(currentKey, k) ==
    DotSlash(relative(DirSegments(routeToFilename(currentKey)), Segments(routeToFilename(k))))

\* ------------------------------------------------------------------------
\* Emission: rewriteLinks. The markup is the list of its href values; a
\* value is a reference as written, on the site origin, on another origin,
\* or without origin (relative to the page).
\* ------------------------------------------------------------------------
Local(ref) == [origin |-> "", ref |-> ref]

\* a full URL on BASE_URL
Absolute(addr) == [origin |-> "https://example.com", ref |-> addr]

\* the place of the first occurrence of word in s (0: none)
IndexOfSeq(s, word) ==
    IF includes(s, word)
    THEN CHOOSE n \in 1..Len(s) :
            /\ n + Len(word) - 1 <= Len(s)
            /\ SubSeq(s, n, n + Len(word) - 1) = word
            /\ \A m \in 1..(n - 1) : SubSeq(s, m, m + Len(word) - 1) # word
    ELSE 0

\* key.replace("#/", "#"): the first occurrence only
NoSlashAt(k, n) == IF n = 0 THEN k ELSE SubSeq(k, 1, n - 1) \o <<"#">> \o Drop(k, n + 1)

noSlash(k) == NoSlashAt(k, IndexOfSeq(k, <<"#", "/">>))

\* result.split(`href="${from}"`).join(`href="${to}"`)
ReplaceHref(html, from, to) == [n \in DOMAIN html |-> IF html[n] = from THEN to ELSE html[n]]

\* the full URL forms of the records whose url has key k
RECURSIVE FullUrlSteps(_, _, _, _)
FullUrlSteps(html, k, rel, n) ==
    IF n > Len(capturedRoutes) THEN html
    ELSE FullUrlSteps(IF routeKey(capturedRoutes[n].url) = k
                      THEN ReplaceHref(ReplaceHref(html, Absolute(capturedRoutes[n].url), rel),
                                       Absolute(capturedRoutes[n].url \o <<"/">>), rel)
                      ELSE html,
                      k, rel, n + 1)

\* a fragment key: href="${key}" and href="${noSlash}"; a path key:
\* href="${pathname}", href="${pathname}/" and the full URL forms
KeyStep(html, k, rel) ==
    IF startsWith(k, <<"#">>)
    THEN ReplaceHref(ReplaceHref(html, Local(k), rel), Local(noSlash(k)), rel)
    ELSE FullUrlSteps(ReplaceHref(ReplaceHref(html, Local(k), rel), Local(k \o <<"/">>), rel),
                      k, rel, 1)

\* for (const [key] of capturedRoutes)
RECURSIVE RewriteFrom(_, _, _)
RewriteFrom(html, currentKey, n) ==
    IF n > Len(capturedRoutes) THEN html
    ELSE RewriteFrom(KeyStep(html, capturedRoutes[n].key,
                             Local(RelHref(currentKey, capturedRoutes[n].key))),
                     currentKey, n + 1)

rewriteLinks(html, currentKey) == RewriteFrom(html, currentKey, 1)

\* ------------------------------------------------------------------------
\* Emission: buildNavBar and buildPage
\* ------------------------------------------------------------------------
\* the characters of keys, in code unit order
CodeOrder == <<"#", "-", ".", "/">> \o DigitSeq \o UpperSeq \o <<"_">> \o LowerSeq

RECURSIVE LessString(_, _)
LessString(a, b) ==
    IF b = <<>> THEN FALSE
    ELSE IF a = <<>> THEN TRUE
    ELSE IF a[1] = b[1] THEN LessString(Tail(a), Tail(b))
    ELSE IndexOf(CodeOrder, a[1]) < IndexOf(CodeOrder, b[1])

\* Array.prototype.sort() of a set of distinct strings
RECURSIVE sort(_)
SortStep(S, least) == <<least>> \o sort(S \ {least})

sort(S) ==
    IF S = {} THEN <<>>
    ELSE SortStep(S, CHOOSE x \in S : \A y \in S \ {x} : LessString(x, y))

\* the three groups of the first loop of buildNavBar
NavSection(k) ==
    IF \/ startsWith(k, <<"#","/","a","i","/","c","o","m","p","o","n","e","n","t","s","/">>)
       \/ startsWith(k, <<"#","/","c","o","m","p","o","n","e","n","t","s","/">>)
    THEN "components"
    ELSE IF startsWith(k, <<"#","/","a","i">>) THEN "ai"
    ELSE "main"

\* if (filename === "index.html" && key === "/") continue
SectionKeys(section) ==
    {k \in Keys(capturedRoutes) :
        /\ ~(routeToFilename(k) = IndexHtml /\ k = <<"/">>)
        /\ NavSection(k) = section}

makeLink(currentKey, k) == Local(RelHref(currentKey, k))

Links(currentKey, keys) == [n \in DOMAIN keys |-> makeLink(currentKey, keys[n])]

\* if (capturedRoutes.has("/")) ... makeLink("/", ...)
HomeLink_None(currentKey) == <<>>

HomeLink(currentKey) ==
    IF has(capturedRoutes, <<"/">>) THEN <<makeLink(currentKey, <<"/">>)>> ELSE <<>>

\* the href values of the navigation bar, in document order
buildNavBar(currentKey) ==
    HomeLink(currentKey)
    \o Links(currentKey, sort(SectionKeys("main") \ {<<"/">>}))
    \o Links(currentKey, sort(SectionKeys("ai")))
    \o Links(currentKey, sort(SectionKeys("components")))

\* the href values of the page: ${navHtml} then ${html}
buildPage(route) == buildNavBar(route.key) \o rewriteLinks(route.html, route.key)

\* ------------------------------------------------------------------------
\* Specification of the emission functions over a drawn store and markup
\* ------------------------------------------------------------------------
MaxExtraViews == 2

MaxPageRefs == 1

\* addresses of views besides the landing view
ViewUrls ==
    { <<"/","#","/","a">>, <<"/","a">>, <<"/","#","/","/","a">>, <<"/","#","/","a","/","b">>,
      <<"/","#","/","a","i">>, <<"/","#","/","c","o","m","p","o","n","e","n","t","s","/","b">> }

ViewRecord(u, f) == [key |-> routeKey(u), url |-> u, fingerprint |-> f]

\* the landing record, then up to MaxExtraViews distinct views in any order
RECURSIVE Stores(_)
Stores(n) ==
    IF n = 0 THEN { <<ViewRecord(<<"/">>, LandingFp)>> }
    ELSE Stores(n - 1) \cup
         UNION { { Append(m, ViewRecord(u, Len(m) + 1)) : u \in ViewUrls \ {m[q].url : q \in DOMAIN m} } :
                 m \in {x \in Stores(n - 1) : Len(x) = n} }

\* references written in the markup of a captured view
PageRefs ==
    { Local(<<"#","/","a">>), Local(<<"#","a">>), Local(<<"/","a">>), Local(<<"/","a","/">>),
      Local(<<"/">>), Local(<<"#","/">>), Local(<<"#","/","a","/","b">>), Local(<<"#","/","b">>),
      Absolute(<<"/","a">>), Absolute(<<"/","#","/","a">>), Absolute(<<"/">>),
      Absolute(<<"/","b">>) }

RECURSIVE Markups(_)
Markups(n) ==
    IF n = 0 THEN { <<>> }
    ELSE Markups(n - 1) \cup
         { Append(h, r) : h \in {x \in Markups(n - 1) : Len(x) = n - 1}, r \in PageRefs }

InitEmit ==
    /\ MAX_PAGES = 1
    /\ navItems = <<>>
    /\ pc = "emit"
    /\ pageUrl = Null
    /\ pageFp = 0
    /\ capturedRoutes \in Stores(MaxExtraViews)
    /\ discoveredRoutes = {}
    /\ seeded = <<>>
    /\ i = 1
    /\ fromKey = Null
    /\ allLabels = <<>>
    /\ j = 1
    /\ key = Null
    /\ urlChanged = FALSE
    /\ newRouteUrls = <<>>
    /\ writtenFiles = {}
    /\ manifest = <<>>
    /\ w = 1
    /\ manifestWritten = FALSE
    /\ baseView = Null
    /\ outcome = "none"
    /\ failure = "none"
    /\ norm = NormIdle
    /\ \E k \in Keys(capturedRoutes), h \in Markups(MaxPageRefs) \ {<<>>} :
          unit = [phase |-> "drawn", currentKey |-> k, html |-> h, result |-> <<>>]

ApplyRewriteLinks ==
    /\ pc = "emit"
    /\ unit.phase = "drawn"
    /\ unit' = [unit EXCEPT !.phase = "rewritten",
                            !.result = rewriteLinks(unit.html, unit.currentKey)]
    /\ UNCHANGED <<mainVars, norm>>

ApplyBuildPage ==
    /\ pc = "emit"
    /\ unit.phase = "drawn"
    /\ unit' = [unit EXCEPT !.phase = "built",
                            !.result = buildPage([key |-> unit.currentKey, html |-> unit.html])]
    /\ UNCHANGED <<mainVars, norm>>

NextEmit ==
    \/ ApplyRewriteLinks
    \/ ApplyBuildPage

SpecEmit == InitEmit /\ [][NextEmit]_vars

\* ------------------------------------------------------------------------
\* isInternalUrl and the origin of an address. An absolute address is its
\* origin and the rest (pathname, search, hash), which routeKey reads.
\* ------------------------------------------------------------------------
BaseOrigin == [scheme |-> "https", host |-> "example.com", port |-> ""]

\* url.hostname === base.hostname
isInternalUrl(href) == href.origin.host = BaseOrigin.host

\* if (href && isInternalUrl(href)) { key = routeKey(href); ... } for one
\* <a href> of a page, nothing being discovered or captured yet
ScanInternal(href) ==
    IF isInternalUrl(href)
    THEN ScanAdd([disc |-> {}, urls |-> <<>>], href, routeKey(href.rest), {})
    ELSE [disc |-> {}, urls |-> <<>>]

\* urlChanged; key = routeKey(urlAfter); if (!key || capturedRoutes.has(key))
\* continue; ...; capturedRoutes.set(key, { key, url: urlAfter, ... })
ClickStore(urlAfter, k, fp) ==
    IF k = Null THEN <<>> ELSE set(<<>>, k, [key |-> k, url |-> urlAfter, fingerprint |-> fp])

\* ------------------------------------------------------------------------
\* getContentFingerprint(page). A page is the list of its h1-h3, p and
\* description elements in document order: tag, text, and whether the
\* element lies inside nav, a sidebar-classed container or role=navigation.
\* ------------------------------------------------------------------------
\* document.querySelectorAll("p, [class*='description']")
IsParagraph(el) == el.tag = "p"

\* h.closest("nav, [class*='sidebar'], [class*='Sidebar'], [role='navigation']") is null
OutsideNav(el) == ~el.inNav

IsContentHeading(el) == el.tag = "h" /\ OutsideNav(el)

\* Array.prototype.slice(0, n)
Slice(s, n) == SubSeq(s, 1, IF Len(s) < n THEN Len(s) ELSE n)

\* Array.prototype.join("|") of the texts
RECURSIVE JoinBar(_)
JoinBar(texts) ==
    IF texts = <<>> THEN <<>>
    ELSE IF Len(texts) = 1 THEN texts[1]
         ELSE texts[1] \o <<"|">> \o JoinBar(Tail(texts))

HeadingTexts(els) == [n \in DOMAIN els |-> trim(els[n].text)]

ParagraphTexts(els) == [n \in DOMAIN els |-> Slice(trim(els[n].text), 50)]

getContentFingerprint(page) ==
    JoinBar(HeadingTexts(Slice(SelectSeq(page, IsContentHeading), 8)))
    \o <<"|", "|", "|">>
    \o JoinBar(ParagraphTexts(Slice(SelectSeq(page, IsParagraph), 3)))

\* ------------------------------------------------------------------------
\* Specification of the key, origin and fingerprint functions over drawn
\* inputs
\* ------------------------------------------------------------------------
MaxElements == 2
MaxLinks == 3
MaxWorkers == 3
MaxQueueBudget == 3

RECURSIVE Pages(_)
Pages(n) ==
    IF n = 0 THEN { <<>> }
    ELSE Pages(n - 1) \cup
         { Append(pg, el) :
             pg \in {x \in Pages(n - 1) : Len(x) = n - 1},
             el \in [tag : {"h", "p"}, text : { <<"x">>, <<"y">> }, inNav : BOOLEAN] }

\* ------------------------------------------------------------------------
\* Assets: downloadAsset and rewriteAssetUrls
\* ------------------------------------------------------------------------
MaxAssets == 3     \* most assets the pages of a site refer to

\* the assets of the site: the second address starts with the whole of the
\* first, the third is on a font host
AssetOrder ==
    << [host |-> <<"s">>, path |-> <<"/","a">>],
       [host |-> <<"s">>, path |-> <<"/","a","2">>],
       [host |-> <<"f","o","n","t","s",".","n","e","t">>, path |-> <<"/","f">>] >>

\* the address as the markup holds it
AssetUrl(a) == a.host \o a.path

\* crypto.createHash("md5")...slice(0, 12): one name per address
hashUrl(url) ==
    <<DigitSeq[CHOOSE n \in DOMAIN AssetOrder : AssetUrl(AssetOrder[n]) = url]>>

\* downloadAsset(assetUrl, requestContext) on the map downloadedAssets, ok
\* being response.ok() of the request
downloadAsset(downloadedAssets, a, ok) ==
    IF \E n \in DOMAIN downloadedAssets : downloadedAssets[n].url = AssetUrl(a)
    THEN downloadedAssets
    ELSE IF \/ includes(a.host, <<"g","o","o","g","l","e","a","p","i","s",".","c","o","m">>)
            \/ includes(a.host, <<"g","s","t","a","t","i","c",".","c","o","m">>)
            \/ includes(a.host, <<"f","o","n","t","s",".","n","e","t">>)
            \/ includes(a.host, <<"t","y","p","e","k","i","t",".","n","e","t">>)
         THEN downloadedAssets
         ELSE IF ok
              THEN Append(downloadedAssets,
                          [url |-> AssetUrl(a),
                           localPath |-> <<"a","s","s","e","t","s","/">> \o hashUrl(AssetUrl(a))
                                           \o <<".","b","i","n">>])
              ELSE downloadedAssets

\* the downloads of a crawl, in the order of the requests
RECURSIVE Downloads(_, _)
Downloads(requests, downloadedAssets) ==
    IF requests = <<>> THEN downloadedAssets
    ELSE Downloads(Tail(requests),
                   downloadAsset(downloadedAssets, Head(requests).asset, Head(requests).ok))

\* result.split(from).join(to)
RECURSIVE SplitJoin(_, _, _)
SplitJoin(s, from, to) ==
    IF Len(s) < Len(from) THEN s
    ELSE IF startsWith(s, from) THEN to \o SplitJoin(Drop(s, Len(from)), from, to)
         ELSE <<s[1]>> \o SplitJoin(Tail(s), from, to)

\* path.relative(currentDir, localPath), "./" put in front of a path that
\* does not start with "."
AssetRel(currentKey, localPath) ==
    DotSlash(relative(DirSegments(routeToFilename(currentKey)), Segments(localPath)))

\* for (const [originalUrl, localPath] of downloadedAssets), in insertion order
RECURSIVE rewriteAssetUrls(_, _, _)
rewriteAssetUrls(content, currentKey, downloadedAssets) ==
    IF downloadedAssets = <<>> THEN content
    ELSE rewriteAssetUrls(SplitJoin(content, Head(downloadedAssets).url,
                                    AssetRel(currentKey, Head(downloadedAssets).localPath)),
                          currentKey, Tail(downloadedAssets))

\* the requests of a crawl: assets of the site, each requested once, each
\* request answered with or without success
RECURSIVE AssetRequests(_)
AssetRequests(n) ==
    IF n = 0 THEN { <<>> }
    ELSE AssetRequests(n - 1) \cup
         { Append(rs, [asset |-> a, ok |-> ok]) :
             rs \in {x \in AssetRequests(n - 1) : Len(x) = n - 1},
             a \in {AssetOrder[m] : m \in DOMAIN AssetOrder}, ok \in BOOLEAN }

\* markup or style text: the asset addresses it refers to, each in quotes
RECURSIVE Quoted(_)
Quoted(refs) ==
    IF refs = <<>> THEN <<>> ELSE <<"'">> \o Head(refs) \o <<"'">> \o Quoted(Tail(refs))

\* a key a click can start from and the text of a control; an absolute
\* address on the site origin or on another; two renderings of one view that
\* differ only inside navigation regions
UnitInputs ==
    [kind : {"key"}, phase : {"drawn"},
     fromKey : { <<"/">>, <<"#","/","a","p","i">>, <<"/","d","o","c","s">>, ComponentsPrefix,
                 Drop(ComponentsPrefix, 1), <<"#","/","a","/","b">> },
     label : { <<"O","v","e","r","v","i","e","w">>, T_Api, T_Usage, T_Close,
               T_Api \o <<" ","B","e","t","a">> }]
    \cup [kind : {"origin"}, phase : {"drawn"},
          address : [origin : [scheme : {"https", "http"},
                               host : {"example.com", "other.org"},
                               port : {"", "8443"}],
                     rest : { <<"/">>, <<"/","a">>, <<"/","#","/","a">> }]]
    \cup UNION { { [kind |-> "page", phase |-> "drawn", a |-> x, b |-> y] :
                      y \in {z \in Pages(MaxElements) :
                                SelectSeq(x, OutsideNav) = SelectSeq(z, OutsideNav)} } :
                  x \in Pages(MaxElements) }
    \cup [kind : {"env"}, phase : {"drawn"},
          env : {[set |-> FALSE, value |-> ""]}
                \cup [set : {TRUE}, value : {"true", "false", "TRUE", "1", ""}]]
    \cup [kind : {"assets"}, phase : {"drawn"},
          requests : {rs \in AssetRequests(MaxAssets) :
                         \A m, n \in DOMAIN rs : m # n => rs[m].asset # rs[n].asset},
          refs : {<<AssetUrl(AssetOrder[n])>> : n \in DOMAIN AssetOrder}
                 \cup {<<AssetUrl(AssetOrder[m]), AssetUrl(AssetOrder[n])>> :
                          m, n \in DOMAIN AssetOrder},
          currentKey : { <<"/">>, <<"#","/","a","/","b">> }]

InitUnit ==
    /\ MAX_PAGES = 1
    /\ navItems = <<>>
    /\ pc = "unit"
    /\ pageUrl = Null
    /\ pageFp = 0
    /\ capturedRoutes = <<>>
    /\ discoveredRoutes = {}
    /\ seeded = <<>>
    /\ i = 1
    /\ fromKey = Null
    /\ allLabels = <<>>
    /\ j = 1
    /\ key = Null
    /\ urlChanged = FALSE
    /\ newRouteUrls = <<>>
    /\ writtenFiles = {}
    /\ manifest = <<>>
    /\ w = 1
    /\ manifestWritten = FALSE
    /\ baseView = Null
    /\ outcome = "none"
    /\ failure = "none"
    /\ norm = NormIdle
    /\ unit \in UnitInputs

\* a click that changed the content and left the address as it was
ApplyContentKey ==
    /\ pc = "unit"
    /\ unit.kind = "key" /\ unit.phase = "drawn"
    /\ unit' = [kind |-> "key", phase |-> "keyed", fromKey |-> unit.fromKey,
                label |-> unit.label,
                result |-> ContentKey(unit.fromKey,
                                      labelForKey([text |-> unit.label, shortLabel |-> Null]))]
    /\ UNCHANGED <<mainVars, norm>>

\* the href scan meets an <a href> with this absolute address
ApplyHrefScan ==
    /\ pc = "unit"
    /\ unit.kind = "origin" /\ unit.phase = "drawn"
    /\ unit' = [kind |-> "origin", phase |-> "scanned", address |-> unit.address,
                frontier |-> ScanInternal(unit.address)]
    /\ UNCHANGED <<mainVars, norm>>

\* a click leaves the browser at this address with new content
ApplyClickCapture ==
    /\ pc = "unit"
    /\ unit.kind = "origin" /\ unit.phase = "drawn"
    /\ unit' = [kind |-> "origin", phase |-> "clicked", address |-> unit.address,
                store |-> ClickStore(unit.address, routeKey(unit.address.rest), 2)]
    /\ UNCHANGED <<mainVars, norm>>

ApplyFingerprint ==
    /\ pc = "unit"
    /\ unit.kind = "page" /\ unit.phase = "drawn"
    /\ unit' = [kind |-> "page", phase |-> "printed", a |-> unit.a, b |-> unit.b,
                fpA |-> getContentFingerprint(unit.a),
                fpB |-> getContentFingerprint(unit.b)]
    /\ UNCHANGED <<mainVars, norm>>

\* const WAIT_FOR_NETWORK = process.env.WAIT_FOR_NETWORK === "true"
WAIT_FOR_NETWORK(env) == env.set /\ env.value = "true"

\* waitUntil: WAIT_FOR_NETWORK ? "networkidle" : "domcontentloaded"
waitUntil(env) == IF WAIT_FOR_NETWORK(env) THEN "networkidle" ELSE "domcontentloaded"

\* page.goto(BASE_URL, { waitUntil, timeout }) under this environment
ApplyGoto ==
    /\ pc = "unit"
    /\ unit.kind = "env" /\ unit.phase = "drawn"
    /\ unit' = [kind |-> "env", phase |-> "loaded", env |-> unit.env,
                waitUntil |-> waitUntil(unit.env)]
    /\ UNCHANGED <<mainVars, norm>>

\* buildPage: rewriteAssetUrls(html, route.key) after the downloads of the crawl
ApplyRewriteAssets ==
    /\ pc = "unit"
    /\ unit.kind = "assets" /\ unit.phase = "drawn"
    /\ \E downloadedAssets \in {Downloads(unit.requests, <<>>)} :
          unit' = [kind |-> "assets", phase |-> "assetsRewritten",
                   requests |-> unit.requests, refs |-> unit.refs,
                   currentKey |-> unit.currentKey,
                   downloadedAssets |-> downloadedAssets,
                   result |-> rewriteAssetUrls(Quoted(unit.refs), unit.currentKey,
                                               downloadedAssets)]
    /\ UNCHANGED <<mainVars, norm>>

NextUnit ==
    \/ ApplyRewriteAssets
    \/ ApplyGoto
    \/ ApplyContentKey
    \/ ApplyHrefScan
    \/ ApplyClickCapture
    \/ ApplyFingerprint

SpecUnit == InitUnit /\ [][NextUnit]_vars

\* C12: after rewriteLinks, every reference whose target normalizes to a
\* captured key (fragment form, path form or absolute form on the site
\* origin) is the relative path from the current page's file to that key's
\* file.
C12_InternalRefsRewritten ==
    unit.phase = "rewritten" =>
        \A n \in DOMAIN unit.html :
            has(capturedRoutes, routeKey(unit.html[n].ref)) =>
                unit.result[n] = Local(RelHref(unit.currentKey, routeKey(unit.html[n].ref)))

\* C13: rewriteLinks leaves unchanged every reference whose target key is
\* not captured.
C13_UncapturedRefsKept ==
    unit.phase = "rewritten" =>
        \A n \in DOMAIN unit.html :
            ~has(capturedRoutes, routeKey(unit.html[n].ref)) => unit.result[n] = unit.html[n]

\* C14: every emitted page holds, for every other captured view, a relative
\* reference to that view's output file.
C14_PageLinksEveryOtherView ==
    unit.phase = "built" =>
        \A k \in Keys(capturedRoutes) \ {unit.currentKey} :
            \E n \in DOMAIN unit.result : unit.result[n] = Local(RelHref(unit.currentKey, k))

C14_Witness ==
    /\ unit.phase = "built"
    /\ unit.currentKey = <<"#","/","a","/","b">>
    /\ Keys(capturedRoutes) = {<<"/">>, <<"#","/","a">>, <<"#","/","a","/","b">>}
    /\ \E n \in DOMAIN unit.result :
          unit.result[n] = Local(<<".",".","/","i","n","d","e","x",".","h","t","m","l">>)
    /\ \E n \in DOMAIN unit.result :
          unit.result[n] = Local(<<".",".","/","a",".","h","t","m","l">>)

\* the label matches one of the patterns for non-navigational controls
Denylisted(label) == \E p \in skipPatterns : includes(toLowerCase(label), p)

\* C15: when the activation of a control changes the address, the record is
\* stored under routeKey of the observed address, in the label loop of
\* discoverAndCapture and in the seeded loop of main.
C15_AddressKeyAuthoritative ==
    [][ /\ (DacCapture /\ urlChanged) =>
              key = routeKey(pageUrl) /\ has(capturedRoutes', routeKey(pageUrl))
        /\ (SeededCapture /\ pageUrl # U_Root) =>
              seeded[i].key = routeKey(pageUrl) /\ has(capturedRoutes', routeKey(pageUrl)) ]_vars

\* C17: a control whose label matches the denylist is never clicked by
\* discoverAndCapture and no view is captured through it.
C17_DenylistedNeverClicked ==
    [][ /\ (DacClick /\ outcome' # "notFound") => ~Denylisted(allLabels[j].text)
        /\ DacCapture => ~Denylisted(allLabels[j].text) ]_vars

\* C18: the labels of one pass are pairwise distinct, and every entry to the
\* top of the label loop starts the pass or moves to the next label (after a
\* continue or after the way back), so no label text is attempted twice.
C18_LabelsAttemptedOnce ==
    [][ /\ \A a, b \in DOMAIN allLabels' :
              allLabels'[a].text = allLabels'[b].text => a = b
        /\ (pc' = "dacLabel" /\ pc # "dacLabel") =>
              \/ pc = "dacScan" /\ j' = 1
              \/ pc \in {"dacNext", "dacBack"} /\ j' = j + 1 /\ allLabels' = allLabels ]_vars

\* the control "Api" and the card around it gave one label, after "Usage",
\* and the loop has come to it
C18_Witness ==
    /\ pc = "dacLabel"
    /\ j = 2
    /\ allLabels = << [text |-> T_Usage, shortLabel |-> Null],
                      [text |-> T_Api, shortLabel |-> T_Api] >>

\* C16: a click that changes only the content gets the slug of the label
\* nested under the key of the view it started from: K + "/" + slug with the
\* routing prefix of K for a view K other than the root, and one child key
\* with that slug from the root.
C16_ContentKeyNested ==
    (unit.phase = "keyed" /\ unit.result # Null) =>
        IF isTopLevel(unit.fromKey)
        THEN unit.result \in { <<"#", "/">> \o labelToSlug(unit.label),
                               <<"/">> \o labelToSlug(unit.label) }
        ELSE unit.result = unit.fromKey \o <<"/">> \o labelToSlug(unit.label)

\* C19: no address of another origin (scheme, host, port) enters the
\* frontier, and no record is stored for a view observed at another origin
\* after a click.
C19_StaysOnOrigin ==
    /\ unit.phase = "scanned" =>
          \A n \in DOMAIN unit.frontier.urls : unit.frontier.urls[n].origin = BaseOrigin
    /\ unit.phase = "clicked" =>
          \A n \in DOMAIN unit.store : unit.store[n].url.origin = BaseOrigin

\* C20: two renderings that differ only inside navigation regions, in
\* headings, paragraphs or description elements, have equal fingerprints.
C20_FingerprintIgnoresNav ==
    unit.phase = "printed" => unit.fpA = unit.fpB

\* C21: records are inserted depth-first per seeded item. Every insertion
\* appends (the landing record, inserted first, stays first); a child is
\* captured only from the page of the current seeded item, whose record is
\* already in; the index of the seeded loop only moves forward, when a loop
\* body or the pass over its page ends; within a pass the label index never
\* goes back.
C21_DepthFirstInsertion ==
    [][ /\ capturedRoutes' # capturedRoutes =>
              /\ Len(capturedRoutes') = Len(capturedRoutes) + 1
              /\ SubSeq(capturedRoutes', 1, Len(capturedRoutes)) = capturedRoutes
              /\ (capturedRoutes = <<>>) = (pc = "landing")
        /\ DacCapture =>
              /\ fromKey = seeded[i].key
              /\ has(capturedRoutes, fromKey)
              /\ capturedRoutes'[Len(capturedRoutes')].key = key
        /\ SeededCapture => capturedRoutes'[Len(capturedRoutes')].key = seeded[i].key
        /\ i' # i => (pc \in {"seedNext", "dacLabel"} /\ pc' = "loop" /\ i' = i + 1)
                      \/ pc' = "fatal"
        /\ (pc \in {"dacLabel", "dacNext", "dacBack", "dacCapture"}
            /\ pc' \in {"dacLabel", "dacNext", "dacBack", "dacCapture"}) => j' >= j ]_vars

\* landing, the first seeded item, a child of it, then the second seeded item
C21_Witness ==
    /\ Len(capturedRoutes) = 4
    /\ Len(seeded) = 2
    /\ i = 2
    /\ pc = "seedNext"
    /\ outcome = "captured"
    /\ capturedRoutes[1].key = <<"/">>
    /\ capturedRoutes[2].key = seeded[1].key
    /\ capturedRoutes[3].key \notin {seeded[1].key, seeded[2].key}
    /\ capturedRoutes[4].key = seeded[2].key

\* C22: the manifest lists its records in the order of their insertion into
\* capturedRoutes, the landing record first, and the sitemap and the index
\* list the same files and routes in the same order.
C22_OutputInInsertionOrder ==
    /\ manifest # <<>> => manifest[1].route = capturedRoutes[1].key
    /\ \A a, b \in DOMAIN manifest :
          a < b => \E m, n \in DOMAIN capturedRoutes :
                      /\ m < n
                      /\ capturedRoutes[m].key = manifest[a].route
                      /\ capturedRoutes[n].key = manifest[b].route
    /\ \A a \in DOMAIN manifest :
          /\ sitemapEntries[a] = routeToFilename(manifest[a].route)
          /\ indexLinks[a].route = manifest[a].route
          /\ indexLinks[a].file = sitemapEntries[a]

C22_Witness ==
    /\ pc = "done"
    /\ manifestWritten
    /\ Len(capturedRoutes) = 4
    /\ Len(manifest) = 4
    /\ \A n \in 1..4 : manifest[n].route = capturedRoutes[n].key
    /\ Len(indexLinks) = 4

\* C23: the rewrite pass does not touch the browser. Every page write (a
\* turn of the write loop, with its buildPage) happens after browser.close(),
\* and from the first turn on the store, the known keys and the closed page
\* stay as they are and the run stays in the write pass.
C23_RewriteAfterBrowserClose ==
    [][ /\ (manifest' # manifest \/ writtenFiles' # writtenFiles \/ w' # w) =>
              pc = "write" /\ pageUrl = Null /\ pageFp = 0
        /\ pc \in {"write", "done"} =>
              /\ UNCHANGED <<capturedRoutes, discoveredRoutes, pageUrl, pageFp>>
              /\ pc' \in {"write", "done"} ]_vars

C23_Witness ==
    /\ pc = "write"
    /\ w = 3
    /\ Len(manifest) = 2
    /\ Len(capturedRoutes) = 3
    /\ pageUrl = Null

MainIdle(position) ==
    /\ MAX_PAGES = 1
    /\ navItems = <<>>
    /\ pc = position
    /\ pageUrl = Null
    /\ pageFp = 0
    /\ capturedRoutes = <<>>
    /\ discoveredRoutes = {}
    /\ seeded = <<>>
    /\ i = 1
    /\ fromKey = Null
    /\ allLabels = <<>>
    /\ j = 1
    /\ key = Null
    /\ urlChanged = FALSE
    /\ newRouteUrls = <<>>
    /\ writtenFiles = {}
    /\ manifest = <<>>
    /\ w = 1
    /\ manifestWritten = FALSE
    /\ baseView = Null
    /\ outcome = "none"
    /\ failure = "none"
    /\ norm = NormIdle

\* the normalized internal addresses the site's pages link to, in document order
SiteLinks == SubSeq(<<"/a", "/b", "/c", "/d">>, 1, MaxLinks)

\* what discoverLinks can return for one page
LinkLists ==
    {SelectSeq(SiteLinks, LAMBDA u : u \in S) :
        S \in SUBSET {SiteLinks[n] : n \in DOMAIN SiteLinks}}

splice_All(q, n) == q

\* queue.splice(0, CONCURRENCY): the elements removed
splice(q, n) == SubSeq(q, 1, IF Len(q) < n THEN Len(q) ELSE n)

admits_NoBudget(visited, link, max) == link \notin visited

admits_NoVisited(visited, link, max) == Cardinality(visited) < max

\* !visited.has(link) && visited.size < MAX_PAGES
admits(visited, link, max) == link \notin visited /\ Cardinality(visited) < max

RECURSIVE enqueue(_, _, _, _)
\* for (const link of result.links) { visited.add(link); queue.push(link); }
enqueue(links, visited, q, max) ==
    IF links = <<>> THEN [visited |-> visited, queue |-> q]
    ELSE IF admits(visited, Head(links), max)
         THEN enqueue(Tail(links), visited \cup {Head(links)}, Append(q, Head(links)), max)
         ELSE enqueue(Tail(links), visited, q, max)

\* new URL(pageUrl).pathname for the addresses of the site
UrlPath ==
    ("/" :> <<"/">>) @@ ("/a" :> <<"/","a">>) @@ ("/b" :> <<"/","b">>)
    @@ ("/c" :> <<"/","c">>) @@ ("/d" :> <<"/","d">>)

\* if (!pathname.endsWith(".html")) pathname += ".html"
WithHtml(p) ==
    IF Len(p) >= Len(DotHtml) /\ SubSeq(p, Len(p) - Len(DotHtml) + 1, Len(p)) = DotHtml
    THEN p ELSE p \o DotHtml

\* urlToFilePath(pageUrl), pathname being the path of pageUrl
urlToFilePath(pathname) ==
    WithHtml(StripTrailingSlashes(IF pathname = <<"/">> \/ pathname = <<>>
                                  THEN <<"/","i","n","d","e","x">> ELSE pathname))

\* getRelativePath(fromPageUrl, toPageUrl) on the paths of the two addresses
getRelativePath(fromPath, toPath) ==
    DotSlash(relative(DirSegments(urlToFilePath(fromPath)), Segments(urlToFilePath(toPath))))

\* the four patterns of one crawled address, replaced in turn
CrawledUrlStep(html, crawledPath, rel) ==
    ReplaceHref(ReplaceHref(ReplaceHref(ReplaceHref(html,
        Absolute(StripTrailingSlashes(crawledPath)), rel),
        Absolute(StripTrailingSlashes(crawledPath) \o <<"/">>), rel),
        Local(crawledPath), rel),
        Local(crawledPath \o <<"/">>), rel)

\* result.replace(/href="\/([^"]*?)"/g, ...): a reference left with a leading
\* "/" and without ".html" is pointed back to the source
PointBack(html) ==
    [n \in DOMAIN html |->
        IF html[n].origin = "" /\ startsWith(html[n].ref, <<"/">>)
           /\ ~includes(html[n].ref, DotHtml)
        THEN Absolute(html[n].ref) ELSE html[n]]

\* rewriteLinks(html, currentPageUrl, allCrawledUrls) of README.md
RECURSIVE BatchRewriteLinks(_, _, _)
BatchRewriteLinks(html, currentPath, allCrawledPaths) ==
    IF allCrawledPaths = <<>> THEN PointBack(html)
    ELSE BatchRewriteLinks(CrawledUrlStep(html, Head(allCrawledPaths),
                                          Local(getRelativePath(currentPath,
                                                                Head(allCrawledPaths)))),
                           currentPath, Tail(allCrawledPaths))

\* the file a relative reference of a page in directory dir refers to
RECURSIVE ResolveRef(_, _)
ResolveRef(dir, rel) ==
    IF rel = <<>> THEN dir
    ELSE IF Head(rel) = <<".">> THEN ResolveRef(dir, Tail(rel))
    ELSE IF Head(rel) = <<".", ".">>
         THEN ResolveRef(SubSeq(dir, 1, Len(dir) - 1), Tail(rel))
         ELSE ResolveRef(Append(dir, Head(rel)), Tail(rel))

\* contexts created by browser.newContext and not yet closed
OpenContexts ==
    {n \in DOMAIN unit.batch : unit.batch[n].at \in {"open", "pushed"}}

InitBatch ==
    /\ MainIdle("batch")
    /\ \E max \in 1..MaxBudget, conc \in 1..MaxWorkers :
          unit = [phase |-> "loop", MAX_PAGES |-> max, CONCURRENCY |-> conc,
                  queue |-> <<"/">>, visited |-> {"/"}, results |-> <<>>,
                  batch |-> <<>>, written |-> {}, pages |-> <<>>]

\* while (queue.length > 0 && results.length < MAX_PAGES): one batch starts
BatchStarts ==
    /\ pc = "batch" /\ unit.phase = "loop"
    /\ unit.queue # <<>> /\ Len(unit.results) < unit.MAX_PAGES
    /\ \E taken \in {splice(unit.queue, unit.CONCURRENCY)} :
          unit' = [unit EXCEPT !.phase = "batch",
                               !.queue = SubSeq(unit.queue, Len(taken) + 1, Len(unit.queue)),
                               !.batch = [n \in DOMAIN taken |->
                                             [url |-> taken[n], at |-> "start"]]]
    /\ UNCHANGED <<mainVars, norm>>

\* browser.newContext and context.newPage of one member of the batch
ContextOpens(n) ==
    /\ pc = "batch" /\ unit.phase = "batch"
    /\ n \in DOMAIN unit.batch /\ unit.batch[n].at = "start"
    /\ unit' = [unit EXCEPT !.batch[n].at = "open"]
    /\ UNCHANGED <<mainVars, norm>>

\* processPage returns (an error result has no links); the result is pushed
\* and its links are queued
PageProcessed(n) ==
    /\ pc = "batch" /\ unit.phase = "batch"
    /\ n \in DOMAIN unit.batch /\ unit.batch[n].at = "open"
    /\ \E error \in BOOLEAN, html \in {"", "body"} :
       \E links \in IF error \/ html = "" THEN {<<>>} ELSE LinkLists :
       \E next \in {enqueue(links, unit.visited, unit.queue, unit.MAX_PAGES)} :
          unit' = [unit EXCEPT !.batch[n].at = "pushed",
                               !.results = Append(unit.results,
                                                  [url |-> unit.batch[n].url,
                                                   error |-> error,
                                                   html |-> IF error THEN "" ELSE html]),
                               !.visited = next.visited,
                               !.queue = next.queue]
    /\ UNCHANGED <<mainVars, norm>>

\* finally { await context.close(); }
ContextCloses(n) ==
    /\ pc = "batch" /\ unit.phase = "batch"
    /\ n \in DOMAIN unit.batch /\ unit.batch[n].at = "pushed"
    /\ unit' = [unit EXCEPT !.batch[n].at = "closed"]
    /\ UNCHANGED <<mainVars, norm>>

\* newContext, newPage or context.close rejects: Promise.all rejects, main
\* rejects and the process exits
BatchFails(n) ==
    /\ pc = "batch" /\ unit.phase = "batch"
    /\ n \in DOMAIN unit.batch /\ unit.batch[n].at \in {"start", "pushed"}
    /\ unit' = [unit EXCEPT !.phase = "fatal"]
    /\ UNCHANGED <<mainVars, norm>>

\* await Promise.all(promises) resolves
BatchEnds ==
    /\ pc = "batch" /\ unit.phase = "batch"
    /\ \A n \in DOMAIN unit.batch : unit.batch[n].at = "closed"
    /\ unit' = [unit EXCEPT !.phase = "loop", !.batch = <<>>]
    /\ UNCHANGED <<mainVars, norm>>

\* the while condition fails; browser.close()
BatchLoopEnds ==
    /\ pc = "batch" /\ unit.phase = "loop"
    /\ ~(unit.queue # <<>> /\ Len(unit.results) < unit.MAX_PAGES)
    /\ unit' = [unit EXCEPT !.phase = "closed"]
    /\ UNCHANGED <<mainVars, norm>>

\* the output phase: allCrawledUrls, then one file for every result with
\* no error and a body, its references rewritten. refs are the addresses
\* the body of every page refers to, as full URLs or as paths
BatchOutput ==
    /\ pc = "batch" /\ unit.phase = "closed"
    /\ \E refs \in LinkLists, absolute \in BOOLEAN :
       \E allCrawledPaths \in {[n \in DOMAIN SelectSeq(unit.results, LAMBDA r : ~r.error) |->
                                  UrlPath[SelectSeq(unit.results, LAMBDA r : ~r.error)[n].url]]},
          html \in {[n \in DOMAIN refs |-> IF absolute THEN Absolute(UrlPath[refs[n]])
                                           ELSE Local(UrlPath[refs[n]])]} :
          unit' = [unit EXCEPT
              !.phase = "written",
              !.written = {urlToFilePath(UrlPath[unit.results[n].url]) :
                              n \in {m \in DOMAIN unit.results :
                                       ~unit.results[m].error /\ unit.results[m].html # ""}},
              !.pages = [n \in DOMAIN unit.results |->
                            IF unit.results[n].error \/ unit.results[n].html = "" THEN <<>>
                            ELSE BatchRewriteLinks(html, UrlPath[unit.results[n].url],
                                                   allCrawledPaths)]]
    /\ UNCHANGED <<mainVars, norm>>

NextBatch ==
    \/ BatchOutput
    \/ BatchStarts
    \/ \E n \in 1..MaxWorkers : ContextOpens(n)
    \/ \E n \in 1..MaxWorkers : PageProcessed(n)
    \/ \E n \in 1..MaxWorkers : ContextCloses(n)
    \/ \E n \in 1..MaxWorkers : BatchFails(n)
    \/ BatchEnds
    \/ BatchLoopEnds

SpecBatch == InitBatch /\ [][NextBatch]_vars

\* C24: in the README crawler the number of browser contexts that are open
\* (created by browser.newContext and not yet closed) never exceeds CONCURRENCY
C24_ContextsBounded ==
    pc = "batch" => Cardinality(OpenContexts) <= unit.CONCURRENCY

C24_Witness ==
    /\ pc = "batch" /\ unit.phase = "batch"
    /\ unit.CONCURRENCY = 2
    /\ Cardinality(OpenContexts) = 2
    /\ unit.queue # <<>>

\* C25: in the README crawler results never holds more than MAX_PAGES entries,
\* whatever MAX_PAGES >= 1, CONCURRENCY >= 1 and the order of the workers' steps
C25_ResultsBounded ==
    pc = "batch" => Len(unit.results) <= unit.MAX_PAGES

C25_Witness ==
    /\ pc = "batch" /\ unit.phase = "batch"
    /\ unit.MAX_PAGES = 3 /\ unit.CONCURRENCY = 2
    /\ Len(unit.results) = 3
    /\ Len(unit.batch) = 2
    /\ unit.batch[1].at = "pushed" /\ unit.batch[2].at = "pushed"


\* C26: when WAIT_FOR_NETWORK is not set in the environment, the documented
\* default 'true' applies and every page load waits for 'networkidle'
C26_NetworkIdleByDefault ==
    (pc = "unit" /\ unit.kind = "env" /\ unit.phase = "loaded" /\ ~unit.env.set)
        => unit.waitUntil = "networkidle"


\* C30: a click that finds no element, or that changes neither the address
\* nor the fingerprint, leaves capturedRoutes and discoveredRoutes as they
\* were, and the loop goes on with the next label (the next seeded item in
\* main) without clicking the same one again
C30_NoOpLeavesStateUnchanged ==
    [][ /\ (pc \in {"dacLabel", "seedClick"} /\ outcome' \in {"notFound", "noop"}) =>
              /\ UNCHANGED <<capturedRoutes, discoveredRoutes, i, j>>
              /\ pc' = (IF pc = "dacLabel" THEN "dacNext" ELSE "seedNext")
        /\ (pc = "dacNext" /\ outcome \in {"notFound", "noop"}) =>
              /\ UNCHANGED <<capturedRoutes, discoveredRoutes, i>>
              /\ pc' = "dacLabel" /\ j' = j + 1
        /\ (pc = "seedNext" /\ outcome \in {"notFound", "noop"}) =>
              /\ UNCHANGED <<capturedRoutes, discoveredRoutes>>
              /\ pc' = "loop" /\ i' = i + 1 ]_vars

C30_Witness ==
    /\ pc = "dacLabel" /\ j = 2 /\ Len(allLabels) = 2
    /\ outcome = "none"
    /\ Len(capturedRoutes) = 2
    /\ pageUrl = seeded[i].url


\* ------------------------------------------------------------------------
\* src/unnamed/part_000: the queue-driven crawler
\* ------------------------------------------------------------------------
\* texts of the elements matching CLICKABLE_SELECTORS, in document order
TargetOrder == << T_Api, T_Usage >>

\* addresses page.url() can report after a click that navigates
ClickUrls == { <<"/","#","/","a","p","i">> }

\* seedSidebarRoutesFromPage: base + key for every label with a key, each
\* address once
RECURSIVE seedSidebarUrls(_, _)
SeedUrlStep(k, labels, seen) ==
    IF k # Null /\ k \notin seen
    THEN <<SeedUrl(k)>> \o seedSidebarUrls(Tail(labels), seen \cup {k})
    ELSE seedSidebarUrls(Tail(labels), seen)

seedSidebarUrls(labels, seen) ==
    IF labels = <<>> THEN <<>> ELSE SeedUrlStep(labelToRouteKey(Head(labels)), labels, seen)

\* discoverHrefRoutes: the address of every <a href> that has a key
RECURSIVE discoverHrefRoutes(_)
HrefRouteStep(full, hrefs) ==
    (IF routeKey(full) # Null THEN <<full>> ELSE <<>>) \o discoverHrefRoutes(Tail(hrefs))

discoverHrefRoutes(hrefs) ==
    IF hrefs = <<>> THEN <<>> ELSE HrefRouteStep(HrefFullUrl(Head(hrefs)), hrefs)

RECURSIVE pushNew(_, _)
\* if (newKey && !discoveredRoutes.has(newKey)) { discoveredRoutes.add(newKey);
\* routeQueue.push(newUrl); } for every address of the list
pushNew(urls, acc) ==
    IF urls = <<>> THEN acc ELSE pushNew(Tail(urls), ScanOne(acc, Head(urls), {}))

\* what getContentFingerprint can return: the fingerprint of a record, the one
\* of the page, or the first one not met so far
Contents(records, fp) ==
    {f \in Fingerprints :
        \/ f = fp
        \/ \E n \in DOMAIN records : records[n].fingerprint = f
        \/ \A g \in Fingerprints :
              (g # fp /\ \A n \in DOMAIN records : records[n].fingerprint # g) => f <= g}

\* the document a page can show after a load or a click
Documents(urls, records, fp) ==
    [url : urls, fp : Contents(records, fp), hrefs : Shown(HrefOrder, MaxHrefs)]

\* page.url() and getContentFingerprint(page) of a document
Page(doc) == [url |-> doc.url, fp |-> doc.fp]

NoPage == [url |-> Null, fp |-> 0]

InitQueue ==
    /\ MainIdle("queue")
    /\ \E max \in 1..MaxQueueBudget :
          unit = [phase |-> "start", MAX_PAGES |-> max,
                  \* labelToRouteKey is pure: the key of every label of the
                  \* site, computed once
                  labelKeys |-> [t \in {TargetOrder[n] : n \in DOMAIN TargetOrder} |->
                                   labelToRouteKey(t)],
                  page |-> NoPage, hrefs |-> <<>>,
                  capturedRoutes |-> <<>>, discoveredRoutes |-> {},
                  seededUrls |-> <<>>, routeQueue |-> <<>>, attempted |-> {},
                  caller |-> "none", url |-> Null, key |-> Null, fingerprint |-> 0,
                  newRoutes |-> <<>>,
                  base |-> NoPage,
                  clickTargets |-> <<>>, j |-> 1, newRouteUrls |-> <<>>]

\* main, steps 1 and 1b: the landing page is loaded and captured, the sidebar
\* labels are turned into addresses and their keys marked as discovered
QueueLanding ==
    /\ pc = "queue" /\ unit.phase = "start"
    /\ \E hrefs \in Shown(HrefOrder, MaxHrefs), labels \in Shown(TargetOrder, MaxSeeds) :
       \E landingKey \in {OrElse(routeKey(U_Root), <<"/">>)},
          seededUrls \in {seedSidebarUrls(labels, {})} :
          unit' = [unit EXCEPT
              !.phase = "scan", !.caller = "main",
              !.page = [url |-> U_Root, fp |-> LandingFp], !.hrefs = hrefs,
              !.capturedRoutes = set(<<>>, landingKey,
                                     [key |-> landingKey, url |-> U_Root,
                                      fingerprint |-> LandingFp, via |-> "landing"]),
              !.discoveredRoutes = {landingKey}
                                     \cup {routeKey(seededUrls[n]) : n \in DOMAIN seededUrls},
              !.seededUrls = seededUrls]
    /\ UNCHANGED <<mainVars, norm>>

\* page.goto(BASE_URL) or an extraction of the landing page rejects
QueueLandingFails ==
    /\ pc = "queue" /\ unit.phase = "start"
    /\ unit' = [unit EXCEPT !.phase = "fatal"]
    /\ UNCHANGED <<mainVars, norm>>

\* discoverAndCapture: the scan of the hrefs and the collection of the click
\* targets
QueueScan ==
    /\ pc = "queue" /\ unit.phase = "scan"
    /\ \E targets \in Shown(TargetOrder, MaxLabels) :
       \E r \in {ScanHrefs(unit.hrefs,
                           [disc |-> unit.discoveredRoutes, urls |-> <<>>],
                           Keys(unit.capturedRoutes))} :
          unit' = [unit EXCEPT !.phase = "click",
                               !.discoveredRoutes = r.disc,
                               !.newRouteUrls = r.urls,
                               !.clickTargets = targets,
                               !.j = 1,
                               !.base = unit.page]
    /\ UNCHANGED <<mainVars, norm>>

\* page.evaluate of the href scan rejects: captureRoute catches it and returns
\* null, main does not catch it
QueueScanFails ==
    /\ pc = "queue" /\ unit.phase = "scan"
    /\ unit' = [unit EXCEPT !.phase = IF unit.caller = "captureRoute" THEN "loop" ELSE "fatal",
                            !.caller = "none", !.hrefs = <<>>, !.newRoutes = <<>>,
                            !.url = Null, !.key = Null, !.fingerprint = 0]
    /\ UNCHANGED <<mainVars, norm>>

\* the record a click capture stores, and the sub-hrefs of the captured page
ClickCaptured(st, k, doc, changed) ==
    [st EXCEPT
        !.capturedRoutes = set(st.capturedRoutes, k,
                               [key |-> k,
                                url |-> IF changed THEN doc.url
                                        ELSE BASE_URL \o <<"#", "/">> \o StripHashSlash(k),
                                fingerprint |-> doc.fp, via |-> "click"]),
        !.discoveredRoutes = ScanHrefs(doc.hrefs,
                                       [disc |-> st.discoveredRoutes \cup {k},
                                        urls |-> st.newRouteUrls], {}).disc,
        !.newRouteUrls = ScanHrefs(doc.hrefs,
                                   [disc |-> st.discoveredRoutes \cup {k},
                                    urls |-> st.newRouteUrls], {}).urls]

\* one turn of for (const el of clickTargets) in which nothing is captured:
\* the click rejects, or it changes neither the address nor the content
QueueClickIdle ==
    /\ pc = "queue" /\ unit.phase = "click"
    /\ unit.j <= Len(unit.clickTargets)
    /\ unit' = [unit EXCEPT !.j = unit.j + 1]
    /\ UNCHANGED <<mainVars, norm>>

\* one turn of for (const el of clickTargets) in which the address or the
\* content changes: the key, the capture when the key is new, the way back
QueueClick ==
    /\ pc = "queue" /\ unit.phase = "click"
    /\ unit.j <= Len(unit.clickTargets)
    /\ \E doc \in Documents({unit.page.url} \cup ClickUrls, unit.capturedRoutes, unit.page.fp) :
       \E changed \in {doc.url # unit.page.url} :
          /\ changed \/ doc.fp # unit.page.fp
          /\ \E k \in {IF changed THEN routeKey(doc.url)
                       ELSE unit.labelKeys[unit.clickTargets[unit.j]]} :
                unit' = [(IF k # Null /\ ~has(unit.capturedRoutes, k)
                          THEN ClickCaptured(unit, k, doc, changed)
                          ELSE unit)
                         EXCEPT !.j = unit.j + 1, !.page = unit.base]
    /\ UNCHANGED <<mainVars, norm>>

\* main, steps 2 and 3: the first discoverAndCapture returns and the queue is
\* built from the seeded and the discovered addresses
QueueBuilt ==
    /\ pc = "queue" /\ unit.phase = "click" /\ unit.caller = "main"
    /\ unit.j > Len(unit.clickTargets)
    /\ \E q \in {unit.seededUrls \o unit.newRouteUrls} :
          unit' = [unit EXCEPT !.phase = "loop", !.caller = "none",
                               !.routeQueue = q,
                               !.discoveredRoutes =
                                    unit.discoveredRoutes \cup {routeKey(q[n]) : n \in DOMAIN q},
                               !.newRouteUrls = <<>>, !.clickTargets = <<>>, !.j = 1,
                               !.base = NoPage, !.hrefs = <<>>]
    /\ UNCHANGED <<mainVars, norm>>

\* while (...) { const url = routeQueue.shift(); ... continue; }: the key is
\* captured already, or captureRoute returns null before loading
QueueSkip ==
    /\ pc = "queue" /\ unit.phase = "loop"
    /\ unit.routeQueue # <<>> /\ Len(unit.capturedRoutes) < unit.MAX_PAGES
    /\ \E k \in {routeKey(Head(unit.routeQueue))} :
          /\ k = Null \/ has(unit.capturedRoutes, k) \/ k = <<"/">>
          /\ unit' = [unit EXCEPT !.routeQueue = Tail(unit.routeQueue)]
    /\ UNCHANGED <<mainVars, norm>>

\* captureRoute up to its call of discoverAndCapture: the load, the check
\* against the landing fingerprint, discoverHrefRoutes
captureRoute ==
    /\ pc = "queue" /\ unit.phase = "loop"
    /\ unit.routeQueue # <<>> /\ Len(unit.capturedRoutes) < unit.MAX_PAGES
    /\ \E url \in {Head(unit.routeQueue)} :
       \E k \in {routeKey(url)} :
          /\ k # Null /\ ~has(unit.capturedRoutes, k) /\ k # <<"/">>
          /\ \E doc \in Documents({Href(ParseURL(url))}, unit.capturedRoutes, unit.page.fp) :
                unit' = [unit EXCEPT
                    !.routeQueue = Tail(unit.routeQueue),
                    !.attempted = unit.attempted \cup {k},
                    !.page = Page(doc),
                    !.hrefs = IF doc.fp = LandingFp THEN <<>> ELSE doc.hrefs,
                    !.phase = IF doc.fp = LandingFp THEN "loop" ELSE "scan",
                    !.caller = IF doc.fp = LandingFp THEN "none" ELSE "captureRoute",
                    !.url = IF doc.fp = LandingFp THEN Null ELSE url,
                    !.key = IF doc.fp = LandingFp THEN Null ELSE k,
                    !.fingerprint = IF doc.fp = LandingFp THEN 0 ELSE doc.fp,
                    !.newRoutes = IF doc.fp = LandingFp THEN <<>>
                                  ELSE discoverHrefRoutes(doc.hrefs)]
    /\ UNCHANGED <<mainVars, norm>>

\* page.goto or an extraction rejects inside captureRoute: null is returned
captureRouteFails ==
    /\ pc = "queue" /\ unit.phase = "loop"
    /\ unit.routeQueue # <<>> /\ Len(unit.capturedRoutes) < unit.MAX_PAGES
    /\ \E k \in {routeKey(Head(unit.routeQueue))} :
          /\ k # Null /\ ~has(unit.capturedRoutes, k) /\ k # <<"/">>
          /\ unit' = [unit EXCEPT !.routeQueue = Tail(unit.routeQueue),
                                  !.attempted = unit.attempted \cup {k}]
    /\ UNCHANGED <<mainVars, norm>>

\* the nested discoverAndCapture returns: capturedRoutes.set(key, result),
\* main queues result.newRoutes and calls discoverAndCapture again
captureRouteReturns ==
    /\ pc = "queue" /\ unit.phase = "click" /\ unit.caller = "captureRoute"
    /\ unit.j > Len(unit.clickTargets)
    /\ \E r \in {pushNew(unit.newRoutes \o unit.newRouteUrls,
                         [disc |-> unit.discoveredRoutes, urls |-> unit.routeQueue])} :
          unit' = [unit EXCEPT
              !.capturedRoutes = set(unit.capturedRoutes, unit.key,
                                     [key |-> unit.key, url |-> unit.url,
                                      fingerprint |-> unit.fingerprint, via |-> "route"]),
              !.discoveredRoutes = r.disc,
              !.routeQueue = r.urls,
              !.phase = "scan", !.caller = "loop",
              !.url = Null, !.fingerprint = 0, !.base = NoPage,
              !.newRoutes = <<>>, !.newRouteUrls = <<>>, !.clickTargets = <<>>, !.j = 1]
    /\ UNCHANGED <<mainVars, norm>>

\* the follow-up discoverAndCapture returns: main queues moreRoutes
QueueFollowUpReturns ==
    /\ pc = "queue" /\ unit.phase = "click" /\ unit.caller = "loop"
    /\ unit.j > Len(unit.clickTargets)
    /\ \E r \in {pushNew(unit.newRouteUrls,
                         [disc |-> unit.discoveredRoutes, urls |-> unit.routeQueue])} :
          unit' = [unit EXCEPT
              !.discoveredRoutes = r.disc,
              !.routeQueue = r.urls,
              !.phase = "loop", !.caller = "none", !.key = Null, !.base = NoPage,
              !.hrefs = <<>>,
              !.newRouteUrls = <<>>, !.clickTargets = <<>>, !.j = 1]
    /\ UNCHANGED <<mainVars, norm>>

\* the while condition fails; browser.close()
QueueLoopEnds ==
    /\ pc = "queue" /\ unit.phase = "loop"
    /\ ~(unit.routeQueue # <<>> /\ Len(unit.capturedRoutes) < unit.MAX_PAGES)
    /\ unit' = [unit EXCEPT !.phase = "closed", !.page = NoPage]
    /\ UNCHANGED <<mainVars, norm>>

NextQueue ==
    \/ QueueLandingFails
    \/ QueueLanding
    \/ QueueScanFails
    \/ QueueScan
    \/ QueueClickIdle
    \/ QueueClick
    \/ QueueBuilt
    \/ QueueLoopEnds
    \/ QueueSkip
    \/ captureRouteFails
    \/ captureRoute
    \/ captureRouteReturns
    \/ QueueFollowUpReturns

SpecQueue == InitQueue /\ [][NextQueue]_vars

\* the crawl is sequential: whenever a step is possible one is taken
FairSpecQueue == SpecQueue /\ WF_vars(NextQueue)

\* C27: in the queue-driven crawler no route is lost. Whenever main is at the
\* head of its loop, every key marked in discoveredRoutes is captured, was
\* handed to captureRoute, or has its address waiting in routeQueue; and the
\* crawl comes to a point from which on every key marked in discoveredRoutes
\* is captured or was handed to captureRoute, unless capturedRoutes has
\* reached MAX_PAGES (or the crawl has died)
C27_RoutesNotLost ==
    /\ [](pc = "queue" /\ unit.phase = "loop" =>
            \A k \in unit.discoveredRoutes :
                \/ has(unit.capturedRoutes, k)
                \/ k \in unit.attempted
                \/ \E n \in DOMAIN unit.routeQueue : routeKey(unit.routeQueue[n]) = k)
    /\ <>[](pc = "queue" =>
            \/ Len(unit.capturedRoutes) >= unit.MAX_PAGES
            \/ unit.phase = "fatal"
            \/ \A k \in unit.discoveredRoutes :
                  has(unit.capturedRoutes, k) \/ k \in unit.attempted)

\* C28: in the queue-driven crawler no two records of capturedRoutes hold the
\* same content fingerprint
C28_QueueNoDuplicateContent ==
    pc = "queue" =>
        \A m, n \in DOMAIN unit.capturedRoutes :
            m # n => unit.capturedRoutes[m].fingerprint # unit.capturedRoutes[n].fingerprint

\* C29: captureRoute stores its record only under a key that is absent when it
\* stores it: a record the nested discoverAndCapture captured under the same
\* key is not replaced
C29_CaptureRouteNeverOverwrites ==
    [][captureRouteReturns =>
          /\ ~has(unit.capturedRoutes, unit.key)
          /\ \A n \in DOMAIN unit.capturedRoutes :
                unit'.capturedRoutes[n] = unit.capturedRoutes[n]]_vars

\* ------------------------------------------------------------------------
\* Backtracking and exploration of crawl.js
\* ------------------------------------------------------------------------
\* the browser shows the view on which discoverAndCapture collected its labels
OnOrigin == pageUrl = baseView.url /\ pageFp = baseView.fp

C32_CapturedViewsEnumerated ==
    pc = "write" =>
        \/ Len(capturedRoutes) >= MAX_PAGES
        \/ \A n \in DOMAIN capturedRoutes : n > 1 => capturedRoutes[n].key \in Attempted

\* ------------------------------------------------------------------------
\* Termination: the runs of crawl.js and of src/unnamed/part_000
\* ------------------------------------------------------------------------
InitRuns == Init \/ InitQueue

NextRuns == Next \/ NextQueue

\* main has returned or has rejected: the positions without a further step
Ended ==
    \/ pc \in {"done", "fatal"}
    \/ pc = "queue" /\ unit.phase \in {"closed", "fatal"}

\* main is one sequential async function and every call it awaits settles: a
\* run that has not ended takes a further step. This is the weak fairness of
\* NextRuns, WF_vars(NextRuns), written out with ~Ended for
\* ENABLED <<NextRuns>>_vars
FairSpecRuns ==
    /\ InitRuns /\ [][NextRuns]_vars
    /\ ([]<>Ended \/ []<><<NextRuns>>_vars)

\* C33: every run terminates. crawl.js comes to the end of the write phase
\* (or main rejects), the queue-driven crawler leaves its while loop and
\* closes the browser (or main rejects); when it leaves the loop routeQueue
\* is empty or capturedRoutes has reached MAX_PAGES
C33_EveryRunTerminates ==
    /\ <>Ended
    /\ [](pc = "queue" /\ unit.phase = "closed" =>
            unit.routeQueue = <<>> \/ Len(unit.capturedRoutes) >= unit.MAX_PAGES)

\* the queue-driven crawler has left its loop with the budget not reached,
\* after it emptied a queue it had filled and captured a route from
C33_Witness ==
    /\ pc = "queue" /\ unit.phase = "closed"
    /\ unit.attempted # {} /\ unit.routeQueue = <<>>
    /\ Len(unit.capturedRoutes) >= 2
    /\ Len(unit.capturedRoutes) < unit.MAX_PAGES

\* C34: while the children of a seeded base page are crawled, no label equal
\* to the buttonText of a seeded item is clicked, and no record is stored
\* under the key of a seeded item by discoverAndCapture
C34_SeededNeverChild ==
    /\ pc \in {"dacBack", "dacCapture"} => allLabels[j].text \notin sidebarLabels
    /\ pc = "dacCapture" => \A n \in DOMAIN seeded : seeded[n].key # key

\* C35: the frontier is deduplicated by route key. Whenever addresses are
\* added to routeQueue, the key of each of them is not in capturedRoutes, was
\* not handed to captureRoute before, and is the key of no address in front
\* of it in the queue
C35_FrontierDeduplicated ==
    [][pc = "queue" /\ Len(unit'.routeQueue) > Len(unit.routeQueue) =>
          \A n \in (Len(unit.routeQueue) + 1)..Len(unit'.routeQueue) :
              /\ ~has(unit.capturedRoutes, routeKey(unit'.routeQueue[n]))
              /\ routeKey(unit'.routeQueue[n]) \notin unit.attempted
              /\ \A m \in 1..(n - 1) :
                    routeKey(unit'.routeQueue[m]) # routeKey(unit'.routeQueue[n])]_vars

\* the text rewriteAssetUrls is to produce for a reference: the relative
\* path of the local file of that address when it was downloaded, the
\* reference as it is when it was not
AssetTarget(ref, currentKey, downloadedAssets) ==
    IF \E n \in DOMAIN downloadedAssets : downloadedAssets[n].url = ref
    THEN AssetRel(currentKey,
                  downloadedAssets[CHOOSE n \in DOMAIN downloadedAssets :
                                      downloadedAssets[n].url = ref].localPath)
    ELSE ref

\* C36: rewriteAssetUrls replaces every reference to a downloaded asset by
\* the relative path of that asset's own local file, also when one downloaded
\* address is the beginning of another, and leaves the references to assets
\* that were not downloaded as they are
C36_AssetRefsRewritten ==
    pc = "unit" /\ unit.phase = "assetsRewritten" =>
        unit.result = Quoted([n \in DOMAIN unit.refs |->
                                AssetTarget(unit.refs[n], unit.currentKey,
                                            unit.downloadedAssets)])

\* the addresses waiting in the queue, those of the batch members whose
\* result is not pushed yet, and those of the results
Handled ==
    unit.queue
    \o SelectSeq([n \in DOMAIN unit.batch |->
                    IF unit.batch[n].at \in {"start", "open"}
                    THEN unit.batch[n].url ELSE ""],
                 LAMBDA u : u # "")
    \o [n \in DOMAIN unit.results |-> unit.results[n].url]

\* C37: in the README crawler visited gives insert-if-absent semantics under
\* every interleaving of the batch workers: no address is in the queue
\* twice, none is processed twice, and results holds no two entries with the
\* same url; every such address is in visited
C37_VisitedInsertIfAbsent ==
    pc = "batch" =>
        /\ \A m, n \in DOMAIN Handled : m # n => Handled[m] # Handled[n]
        /\ \A n \in DOMAIN Handled : Handled[n] \in unit.visited

\* two workers of one batch have both pushed their results and links, and
\* the queue holds what was new to visited
C37_Witness ==
    /\ pc = "batch" /\ unit.phase = "batch"
    /\ Len(unit.batch) = 2
    /\ unit.batch[1].at = "pushed" /\ unit.batch[2].at = "pushed"
    /\ Len(unit.results) = 3
    /\ Len(unit.queue) = 1
    /\ Cardinality(unit.visited) = 4

\* C38: the export of the README crawler has no dead local links. Every
\* reference rewriteLinks has turned into a relative path refers to a file
\* the output phase has written, also when pages failed or had an empty body
C38_NoDeadLocalLinks ==
    pc = "batch" /\ unit.phase = "written" =>
        \A n \in DOMAIN unit.pages : \A m \in DOMAIN unit.pages[n] :
            (unit.pages[n][m].origin = "" /\ startsWith(unit.pages[n][m].ref, <<".">>)) =>
                <<"/">> \o JoinSlash(ResolveRef(
                                DirSegments(urlToFilePath(UrlPath[unit.results[n].url])),
                                Segments(unit.pages[n][m].ref)))
                    \in unit.written

\* C39: for every record of capturedRoutes, normalizing the stored url gives
\* back the record's key, for landing, seeded, address-changed and
\* content-changed captures alike
C39_UrlNormalizesToKey ==
    \A n \in DOMAIN capturedRoutes :
        routeKey(capturedRoutes[n].url) = capturedRoutes[n].key

====
